---- MODULE Spec2Model ----
(***************************************************************************)
(* VictorDB table (key-value) server: the durability pipeline (snapshot,   *)
(* write-ahead log, threshold flush), the request dispatch and the         *)
(* select() connection loop of src/src/table_server.c, with the frame and  *)
(* CBOR codec of src/src/buffer.c and src/src/kvproto.c.                   *)
(***************************************************************************)
EXTENDS Integers, Sequences, FiniteSets, TLC

\* ---------------------------------------------------------------- bounds
\* Byte strings are <<>> (zero length) or <<b>>; keys use b in 1..MaxKeyByte,
\* values b in 1..MaxValByte.
MaxKeyByte == 1
MaxValByte == 2
\* Most mutations one process counts before clients stop sending mutations.
MaxOps == 3
\* Most frames in the WAL byte stream (file plus stdio buffer).
MaxWal == 2
\* Most connections waiting in the listen queue.
MaxBacklog == 1
\* The connection table's size (MAX_CONNECTIONS is 128 in server.h; the
\* loop's logic is the same for every size, the model runs it scaled down).
MAX_CONNECTIONS == 2
\* VICTOR_EXPORT_THRESHOLD, any positive integer (default 10).
EXPORT_THRESHOLD == 1

\* ------------------------------------------------------- message types
MSG_PUT == "MSG_PUT"
MSG_GET == "MSG_GET"
MSG_DEL == "MSG_DEL"
MSG_GET_RESULT == "MSG_GET_RESULT"
MSG_OP_RESULT == "MSG_OP_RESULT"
MSG_ERROR == "MSG_ERROR"
\* a vector-engine type the table server does not handle
MSG_ADD == "MSG_ADD"
MSG_SEARCH == "MSG_SEARCH"

\* engine status codes (0 is success; the others only need to be non-zero)
KV_SUCCESS == 0
KV_KEY_NOT_FOUND == 1
INVALID_ARGUMENT == 2

\* ------------------------------------------------------------ CBOR data
KeyStrings == {<<>>} \cup {<<b>> : b \in 1..MaxKeyByte}
ValStrings == {<<>>} \cup {<<b>> : b \in 1..MaxValByte}

Bytes(s) == [t |-> "bytes", b |-> s]
UInt(n) == [t |-> "uint", b |-> <<n>>]
\* A payload: zero bytes, bytes that are no CBOR array, or a definite array.
EmptyPayload == [wf |-> "empty", items |-> <<>>]
NotArray == [wf |-> "notarray", items |-> <<>>]
Arr(items) == [wf |-> "array", items |-> items]

Frame(type, payload) == [type |-> type, payload |-> payload]

\* The payloads a client may put in a frame.
Malformed ==
    {EmptyPayload, NotArray, Arr(<<UInt(0)>>),
     Arr(<<Bytes(<<>>), Bytes(<<>>), Bytes(<<>>)>>)}
KeyOnly == {Arr(<<Bytes(k)>>) : k \in KeyStrings}
KeyValue == {Arr(<<Bytes(k), Bytes(v)>>) : k \in KeyStrings, v \in ValStrings}

\* The frames the clients of the model send: the well-formed requests, a PUT
\* that carries only a key, malformed payloads, and a type of the vector engine.
ClientFrames ==
    {Frame(MSG_PUT, p) : p \in KeyValue \cup KeyOnly \cup Malformed}
    \cup {Frame(t, p) : t \in {MSG_DEL, MSG_GET}, p \in KeyOnly \cup Malformed}
    \cup {Frame(MSG_ADD, Arr(<<Bytes(<<>>)>>))}

\* -------------------------------------------- buffer.c: frame header
\* A header is four bytes, the 32-bit word (type << 28) | len in network
\* byte order. Words are kept as byte tuples: every number stays below 2^31.
MSG_MAXLEN == 268435455

\* hdr_serialize without htonl on a little-endian host
hdr_serialize_no_htonl(type, len) ==
    IF type > 15 \/ len > MSG_MAXLEN THEN [ret |-> -1, bytes |-> <<>>]
    ELSE [ret |-> 0,
          bytes |-> <<len % 256, (len \div 256) % 256, (len \div 65536) % 256,
                      ((type % 16) * 16) + ((len \div 16777216) % 16)>>]

\* hdr_serialize: ret -1 when type or len is out of range
hdr_serialize(type, len) ==
    IF type > 15 \/ len > MSG_MAXLEN
    THEN [ret |-> -1, bytes |-> <<>>]
    ELSE [ret |-> 0,
          bytes |-> <<((type % 16) * 16) + ((len \div 16777216) % 16),
                      (len \div 65536) % 256,
                      (len \div 256) % 256,
                      len % 256>>]

\* hdr_deserialize: type = (raw >> 28) & 0xF, len = raw & 0x0FFFFFFF
hdr_deserialize(b) ==
    [ret |-> 0,
     type |-> (b[1] \div 16) % 16,
     len |-> ((b[1] % 16) * 16777216) + (b[2] * 65536) + (b[3] * 256) + b[4]]

\* recv_msg after the four header bytes were read: -1 when it gives up on the
\* header, else the number of payload bytes recv_all is asked to wait for.
recv_msg_payload_len(b) ==
    LET h == hdr_deserialize(b)
    IN  IF h.ret < 0 THEN -1
        ELSE IF h.len > MSG_MAXLEN THEN -1
        ELSE h.len

\* ------------------------------------------------ kvproto.c: decoders
\* buffer_read_kv_master: ret = -1 on failure; key/val <<>> stand for the
\* NULL pointer with length 0.
buffer_read_kv_master(buf, wantKey, wantVal) ==
    LET p == buf.payload
        n == Len(p.items)
        fail == [ret |-> -1, key |-> <<>>, val |-> <<>>]
    IN  IF p.wf = "empty" THEN fail
        ELSE IF p.wf # "array" THEN fail
        ELSE IF n < 1 \/ n > 2 THEN fail
        ELSE IF wantKey /\ p.items[1].t # "bytes" THEN fail
        ELSE LET key == IF wantKey THEN p.items[1].b ELSE <<>>
                 vitem == IF n = 2 THEN p.items[2] ELSE p.items[1]
                 val == IF wantVal /\ vitem.t = "bytes" THEN vitem.b ELSE <<>>
             IN  [ret |-> 0, key |-> key, val |-> val]

buffer_read_put(buf) == buffer_read_kv_master(buf, TRUE, TRUE)
buffer_read_del(buf) == buffer_read_kv_master(buf, TRUE, FALSE)
buffer_read_get(buf) == buffer_read_kv_master(buf, TRUE, FALSE)

buffer_read_get_result(buf) == buffer_read_kv_master(buf, FALSE, TRUE)

\* ------------------------------------------------ viproto.c: SEARCH
\* A CBOR unsigned integer keeps the width it was encoded with: t is
\* "uint8", "uint16", "uint32" or "uint64" and b its 1, 2, 4 or 8 bytes,
\* most significant first. A vector is an array of floats.
UIntW(t, bytes) == [t |-> t, b |-> bytes]
Floats == [t |-> "floats", b |-> <<>>]

\* (int) of an unsigned value: its low 32 bits read as two's complement
\* (the result gcc and clang define for a value that does not fit)
CastToInt(bytes) ==
    LET k == Len(bytes)
        at(j) == IF k - j >= 1 THEN bytes[k - j] ELSE 0
        top == at(3)
    IN  ((IF top >= 128 THEN top - 256 ELSE top) * 16777216)
        + (at(2) * 65536) + (at(1) * 256) + at(0)

\* buffer_read_search: [[float, ...], n]; *n = (int)cbor_get_uintW(n_item)
buffer_read_search(buf) ==
    LET p == buf.payload
    IN  IF p.wf # "array" \/ Len(p.items) # 2 THEN [ret |-> -1, n |-> 0]
        ELSE IF p.items[1].t # "floats" THEN [ret |-> -1, n |-> 0]
        ELSE IF p.items[2].t \notin {"uint8", "uint16", "uint32", "uint64"}
        THEN [ret |-> -1, n |-> 0]
        ELSE [ret |-> 0, n |-> CastToInt(p.items[2].b)]

\* A (pointer, length) argument of an encoder: NULL, or a byte string.
Null == [ptr |-> FALSE, b |-> <<>>]
Ptr(s) == [ptr |-> TRUE, b |-> s]

\* buffer_write_kv_master: GET_RESULT is [value] (the empty byte string for
\* a NULL or zero-length value); the others are [key] when val is NULL and
\* [key, value] otherwise, and fail on a NULL key.
buffer_write_kv_master(msg_type, key, val) ==
    IF msg_type = MSG_GET_RESULT
    THEN [ret |-> 0,
          frame |-> Frame(msg_type,
                          Arr(<<Bytes(IF val.ptr /\ Len(val.b) > 0
                                      THEN val.b ELSE <<>>)>>))]
    ELSE IF ~key.ptr
    THEN [ret |-> -1, frame |-> Frame(msg_type, EmptyPayload)]
    ELSE [ret |-> 0,
          frame |-> Frame(msg_type,
                          Arr(IF val.ptr THEN <<Bytes(key.b), Bytes(val.b)>>
                                         ELSE <<Bytes(key.b)>>))]

buffer_write_put(key, val) == buffer_write_kv_master(MSG_PUT, key, val)
buffer_write_del(key) == buffer_write_kv_master(MSG_DEL, key, Null)
buffer_write_get(key) == buffer_write_kv_master(MSG_GET, key, Null)

\* kvproto.c: the GET_RESULT encoder, [value]
buffer_write_get_result(value) ==
    Frame(MSG_GET_RESULT, Arr(<<Bytes(value)>>))

\* the OP_RESULT / ERROR encoder, [code, message]
buffer_write_op_result(type, code) ==
    Frame(type, Arr(<<UInt(code)>>))

\* ------------------------------------------------- the KVTable engine
\* A table is a function from the keys it holds to their values.
EmptyTable == [k \in {} |-> <<>>]

\* an engine that takes the zero-length key as a key like any other
kv_put_code_any_key(key, val, emptyOk) ==
    IF val = <<>> /\ ~emptyOk THEN INVALID_ARGUMENT
    ELSE KV_SUCCESS

kv_put_code(key, val, emptyOk) ==
    IF key = <<>> THEN INVALID_ARGUMENT
    ELSE IF val = <<>> /\ ~emptyOk THEN INVALID_ARGUMENT
    ELSE KV_SUCCESS

kv_put(table, key, val) ==
    [k \in DOMAIN table \cup {key} |-> IF k = key THEN val ELSE table[k]]

kv_del_code(table, key) ==
    IF key = <<>> THEN INVALID_ARGUMENT
    ELSE IF key \notin DOMAIN table THEN KV_KEY_NOT_FOUND
    ELSE KV_SUCCESS

kv_del(table, key) ==
    [k \in DOMAIN table \ {key} |-> table[k]]

kv_get_code(table, key) ==
    IF key = <<>> THEN INVALID_ARGUMENT
    ELSE IF key \notin DOMAIN table THEN KV_KEY_NOT_FOUND
    ELSE KV_SUCCESS

\* -------------------------------------------- table_server.c: handlers
\* A handler works on core = [table, op_add, op_del] and the message buffer.
\* Its result: ret (-1: no reply, close), the new core, the buffer it leaves
\* (the reply), dump (the frames buffer_dump_wal was called on) and ev, the
\* order of its effects.
HResult(ret, table, add, del, msg, dump, ev) ==
    [ret |-> ret, table |-> table, op_add |-> add, op_del |-> del,
     msg |-> msg, dump |-> dump, ev |-> ev]

\* buffer_dump_wal writes the buffer as it is at the time of the call.
buffer_dump_wal(msg) == <<msg>>

\* handle_del_message returning -1 when kv_del fails
handle_del_message_fail_closes(core, msg, walOn, emptyOk) ==
    LET d == buffer_read_del(msg)
        code == kv_del_code(core.table, d.key)
    IN  IF d.ret = -1
        THEN HResult(-1, core.table, core.op_add, core.op_del, msg, <<>>,
                     <<"decode_fail">>)
        ELSE IF code # KV_SUCCESS
        THEN HResult(-1, core.table, core.op_add, core.op_del, msg, <<>>,
                     <<"engine_fail">>)
        ELSE HResult(0, kv_del(core.table, d.key), core.op_add, core.op_del + 1,
                     buffer_write_op_result(MSG_OP_RESULT, code),
                     IF walOn THEN buffer_dump_wal(msg) ELSE <<>>,
                     IF walOn THEN <<"engine_ok", "count", "wal", "encode">>
                              ELSE <<"engine_ok", "count", "encode">>)

\* handle_del_message counting a DEL the engine turned down
handle_del_message_counts_rejected(core, msg, walOn, emptyOk) ==
    LET d == buffer_read_del(msg)
        code == kv_del_code(core.table, d.key)
    IN  IF d.ret = -1
        THEN HResult(-1, core.table, core.op_add, core.op_del, msg, <<>>,
                     <<"decode_fail">>)
        ELSE IF code # KV_SUCCESS
        THEN HResult(0, core.table, core.op_add, core.op_del + 1,
                     buffer_write_op_result(MSG_OP_RESULT, code), <<>>,
                     <<"engine_fail", "encode">>)
        ELSE HResult(0, kv_del(core.table, d.key), core.op_add, core.op_del + 1,
                     buffer_write_op_result(MSG_OP_RESULT, code),
                     IF walOn THEN buffer_dump_wal(msg) ELSE <<>>,
                     IF walOn THEN <<"engine_ok", "count", "wal", "encode">>
                              ELSE <<"engine_ok", "count", "encode">>)

handle_del_message(core, msg, walOn, emptyOk) ==
    LET d == buffer_read_del(msg)
        code == kv_del_code(core.table, d.key)
    IN  IF d.ret = -1
        THEN HResult(-1, core.table, core.op_add, core.op_del, msg, <<>>,
                     <<"decode_fail">>)
        ELSE IF code # KV_SUCCESS
        THEN HResult(0, core.table, core.op_add, core.op_del,
                     buffer_write_op_result(MSG_OP_RESULT, code), <<>>,
                     <<"engine_fail", "encode">>)
        ELSE HResult(0, kv_del(core.table, d.key), core.op_add, core.op_del + 1,
                     buffer_write_op_result(MSG_OP_RESULT, code),
                     IF walOn THEN buffer_dump_wal(msg) ELSE <<>>,
                     IF walOn THEN <<"engine_ok", "count", "wal", "encode">>
                              ELSE <<"engine_ok", "count", "encode">>)

\* handle_put_message without its call of buffer_dump_wal
handle_put_message_no_wal(core, msg, walOn, emptyOk) ==
    LET d == buffer_read_put(msg)
        code == kv_put_code(d.key, d.val, emptyOk)
    IN  IF d.ret = -1
        THEN HResult(-1, core.table, core.op_add, core.op_del, msg, <<>>,
                     <<"decode_fail">>)
        ELSE IF code # KV_SUCCESS
        THEN HResult(0, core.table, core.op_add, core.op_del,
                     buffer_write_op_result(MSG_OP_RESULT, code), <<>>,
                     <<"engine_fail", "encode">>)
        ELSE HResult(0, kv_put(core.table, d.key, d.val), core.op_add + 1, core.op_del,
                     buffer_write_op_result(MSG_OP_RESULT, code), <<>>,
                     <<"engine_ok", "count", "encode">>)

handle_put_message(core, msg, walOn, emptyOk) ==
    LET d == buffer_read_put(msg)
        code == kv_put_code(d.key, d.val, emptyOk)
    IN  IF d.ret = -1
        THEN HResult(-1, core.table, core.op_add, core.op_del, msg, <<>>,
                     <<"decode_fail">>)
        ELSE IF code # KV_SUCCESS
        THEN HResult(0, core.table, core.op_add, core.op_del,
                     buffer_write_op_result(MSG_OP_RESULT, code), <<>>,
                     <<"engine_fail", "encode">>)
        ELSE HResult(0, kv_put(core.table, d.key, d.val), core.op_add + 1, core.op_del,
                     buffer_write_op_result(MSG_OP_RESULT, code),
                     IF walOn THEN buffer_dump_wal(msg) ELSE <<>>,
                     IF walOn THEN <<"engine_ok", "wal", "count", "encode">>
                              ELSE <<"engine_ok", "count", "encode">>)

\* handle_get_message answering GET_RESULT whatever kv_get returned
handle_get_message_unchecked(core, msg) ==
    LET d == buffer_read_get(msg)
        code == kv_get_code(core.table, d.key)
        val == IF code = KV_SUCCESS THEN core.table[d.key] ELSE <<>>
    IN  IF d.ret = -1
        THEN HResult(-1, core.table, core.op_add, core.op_del, msg, <<>>,
                     <<"decode_fail">>)
        ELSE HResult(0, core.table, core.op_add, core.op_del,
                     buffer_write_get_result(val), <<>>, <<"engine_ok", "encode">>)

\* handle_get_message logging the GET it answered to the WAL
handle_get_message_logged(core, msg) ==
    LET d == buffer_read_get(msg)
        code == kv_get_code(core.table, d.key)
        val == IF code = KV_SUCCESS THEN core.table[d.key] ELSE <<>>
    IN  IF d.ret = -1
        THEN HResult(-1, core.table, core.op_add, core.op_del, msg, <<>>,
                     <<"decode_fail">>)
        ELSE IF code = KV_SUCCESS /\ Len(val) > 0
        THEN HResult(0, core.table, core.op_add, core.op_del,
                     buffer_write_get_result(val), buffer_dump_wal(msg),
                     <<"engine_ok", "encode">>)
        ELSE HResult(0, core.table, core.op_add, core.op_del,
                     buffer_write_op_result(MSG_ERROR,
                         IF code = KV_SUCCESS THEN KV_KEY_NOT_FOUND ELSE code),
                     <<>>, <<"engine_fail", "encode">>)

handle_get_message(core, msg) ==
    LET d == buffer_read_get(msg)
        code == kv_get_code(core.table, d.key)
        val == IF code = KV_SUCCESS THEN core.table[d.key] ELSE <<>>
    IN  IF d.ret = -1
        THEN HResult(-1, core.table, core.op_add, core.op_del, msg, <<>>,
                     <<"decode_fail">>)
        ELSE IF code = KV_SUCCESS /\ Len(val) > 0
        THEN HResult(0, core.table, core.op_add, core.op_del,
                     buffer_write_get_result(val), <<>>, <<"engine_ok", "encode">>)
        ELSE HResult(0, core.table, core.op_add, core.op_del,
                     buffer_write_op_result(MSG_ERROR,
                         IF code = KV_SUCCESS THEN KV_KEY_NOT_FOUND ELSE code),
                     <<>>, <<"engine_fail", "encode">>)

\* Dispatch answering ERROR to a type it does not handle
Dispatch_error_reply(core, msg, emptyOk) ==
    IF msg.type = MSG_PUT THEN handle_put_message(core, msg, TRUE, emptyOk)
    ELSE IF msg.type = MSG_DEL THEN handle_del_message(core, msg, TRUE, emptyOk)
    ELSE IF msg.type = MSG_GET THEN handle_get_message(core, msg)
    ELSE HResult(0, core.table, core.op_add, core.op_del,
                 buffer_write_op_result(MSG_ERROR, INVALID_ARGUMENT), <<>>,
                 <<"bad_type">>)

\* The switch of the connection loop (table_server.c:360-376).
Dispatch(core, msg, emptyOk) ==
    IF msg.type = MSG_PUT THEN handle_put_message(core, msg, TRUE, emptyOk)
    ELSE IF msg.type = MSG_DEL THEN handle_del_message(core, msg, TRUE, emptyOk)
    ELSE IF msg.type = MSG_GET THEN handle_get_message(core, msg)
    ELSE HResult(-1, core.table, core.op_add, core.op_del, msg, <<>>, <<"bad_type">>)

\* victor_table_loadwal: every complete frame of the file goes through the
\* handlers with wal = NULL; a file ending inside a frame makes
\* buffer_load_wal return -1 after the complete frames were applied.
\* the switch of the replay loop without its case MSG_DEL
ReplayFrame_put_only(core, f, emptyOk) ==
    IF f.type = MSG_PUT THEN handle_put_message(core, f, FALSE, emptyOk)
    ELSE HResult(0, core.table, core.op_add, core.op_del, f, <<>>, <<>>)

\* the switch handing the handlers a WAL to append to
ReplayFrame_logs(core, f, emptyOk) ==
    IF f.type = MSG_PUT THEN handle_put_message(core, f, TRUE, emptyOk)
    ELSE IF f.type = MSG_DEL THEN handle_del_message(core, f, TRUE, emptyOk)
    ELSE HResult(0, core.table, core.op_add, core.op_del, f, <<>>, <<>>)

\* one turn of the loop: the switch on the type of the frame just read
ReplayFrame(core, f, emptyOk) ==
    IF f.type = MSG_PUT THEN handle_put_message(core, f, FALSE, emptyOk)
    ELSE IF f.type = MSG_DEL THEN handle_del_message(core, f, FALSE, emptyOk)
    ELSE HResult(0, core.table, core.op_add, core.op_del, f, <<>>, <<>>)

\* the loop leaving at the first frame of a type it does not know
RECURSIVE ReplayFrames_stops_at_unknown(_, _, _)
ReplayFrames_stops_at_unknown(core, frames, emptyOk) ==
    IF frames = <<>> THEN core
    ELSE IF Head(frames).type \notin {MSG_PUT, MSG_DEL} THEN core
    ELSE LET r == ReplayFrame(core, Head(frames), emptyOk)
         IN  ReplayFrames_stops_at_unknown(
                 [table |-> r.table, op_add |-> r.op_add, op_del |-> r.op_del],
                 Tail(frames), emptyOk)

\* the loop applying the frames from the end of the file to its start
RECURSIVE ReplayFrames_newest_first(_, _, _)
ReplayFrames_newest_first(core, frames, emptyOk) ==
    IF frames = <<>> THEN core
    ELSE LET c == ReplayFrames_newest_first(core, Tail(frames), emptyOk)
             r == ReplayFrame(c, Head(frames), emptyOk)
         IN  [table |-> r.table, op_add |-> r.op_add, op_del |-> r.op_del]

RECURSIVE ReplayFrames(_, _, _)
ReplayFrames(core, frames, emptyOk) ==
    IF frames = <<>> THEN core
    ELSE LET r == ReplayFrame(core, Head(frames), emptyOk)
         IN  ReplayFrames([table |-> r.table, op_add |-> r.op_add, op_del |-> r.op_del],
                          Tail(frames), emptyOk)

\* what the handlers called by the loop append to the WAL, in order
RECURSIVE ReplayDumps(_, _, _)
ReplayDumps(core, frames, emptyOk) ==
    IF frames = <<>> THEN <<>>
    ELSE LET r == ReplayFrame(core, Head(frames), emptyOk)
         IN  r.dump \o ReplayDumps(
                 [table |-> r.table, op_add |-> r.op_add, op_del |-> r.op_del],
                 Tail(frames), emptyOk)

\* victor_table_loadwal returning 0 when the reader stopped on a torn frame
victor_table_loadwal_ignores_torn(core, frames, torn, emptyOk) ==
    LET c == ReplayFrames(core, frames, emptyOk)
    IN  [ret |-> 0, table |-> c.table, op_add |-> c.op_add, op_del |-> c.op_del]

victor_table_loadwal(core, frames, torn, emptyOk) ==
    LET c == ReplayFrames(core, frames, emptyOk)
    IN  [ret |-> IF torn THEN -1 ELSE 0,
         table |-> c.table, op_add |-> c.op_add, op_del |-> c.op_del]

\* get_export_threshold answering one less than the configured threshold
get_export_threshold_one_less == EXPORT_THRESHOLD - 1

\* server.h: get_export_threshold
get_export_threshold == EXPORT_THRESHOLD

\* ------------------------------------------------------------- state
VARIABLES
    pc,          \* where the process is: "down", "looptest", "select",
                 \* "accept", "conns", "recvwait", "send", "unlink", "closing",
                 \* "closeconns", "closeserver", "main"
    table,       \* core.table
    op_add,      \* core.op_add_counter
    op_del,      \* core.op_del_counter
    conn,        \* conn[MAX_CONNECTIONS], -1 for a free slot
    fdset,       \* the fd_set "set" select watches
    check,       \* the fd_set "check" select returned
    n,           \* select's count of ready descriptors still to serve
    i,           \* index of the connection for-loop
    buff,        \* the one message buffer
    running,     \* the flag handle_signal clears
    intr,        \* a signal arrived while select was blocked (EINTR)
    snapshot,    \* <<>> when db.table is absent, else <<table>>
    walExists,   \* a file exists at the path db.twal
    walDisk,     \* the complete frames of that file
    walTorn,     \* the file ends inside a frame
    walH,        \* the FILE* wal: "closed", "linked" (its file is the one
                 \* at the path) or "unlinked" (its file has no name)
    walBuf,      \* frames fwrite left in the stdio buffer
    open,        \* descriptors of accepted, not yet closed connections
    rdy,         \* the open descriptors with bytes (or EOF) to read
    backlog,     \* connections waiting in the listen queue
    emptyOk,     \* the engine stores a zero-length value (fixed per run)
    lastStop,    \* how the process last ended ("up" while it runs)
    ret,         \* what main returned: <<>> while it has not, <<0>> or <<-1>>
    ref,         \* reference map: the successful mutations applied in order
    unacked,     \* keys whose latest applied mutation got no reply
    walWriteFailed, \* an fwrite on the WAL failed in this process
    exportFailed,   \* kv_dump failed since the last successful export
    req,         \* the request frame being served
    steps,       \* the order of the effects of serving the last frame received
                 \* in this round (<<>> between rounds)
    hdr,         \* a proto_header_t on its way through hdr_serialize and
                 \* hdr_deserialize (NoHdr while the server model runs)
    file,        \* a WAL file as bytes under buffer_load_wal (NoFile while
                 \* the server model runs)
    replay,      \* a core and a list of frames under victor_table_loadwal and
                 \* the dispatcher (NoReplay while the server model runs)
    cbor         \* a request under the encoders and decoders of kvproto.c
                 \* (NoCbor while the server model runs)

vars == <<pc, table, op_add, op_del, conn, fdset, check, n, i, buff, running,
          intr, snapshot, walExists, walDisk, walTorn, walH, walBuf, open,
          rdy, backlog, emptyOk, lastStop, ret, ref, unacked, walWriteFailed,
          exportFailed, req, steps, hdr, file, replay, cbor>>

\* table_main.c:127, the listening descriptor
server == 3

Slots == 1..MAX_CONNECTIONS
NoFrame == Frame("none", EmptyPayload)
NoConn == [s \in Slots |-> -1]

procVars == <<table, op_add, op_del, conn, fdset, check, n, i, buff, running, intr>>
diskVars == <<snapshot, walExists, walDisk, walTorn>>
sockVars == <<open, rdy, backlog>>
ghostVars == <<ref, unacked, walWriteFailed, exportFailed, req, steps>>

NoHdr == [stage |-> "none", type |-> 0, len |-> 0, ret |-> 0, bytes |-> <<>>,
          out |-> [ret |-> 0, type |-> 0, len |-> 0], written |-> 0]

InitServer ==
    /\ pc = "down"
    /\ table = EmptyTable /\ op_add = 0 /\ op_del = 0
    /\ conn = NoConn /\ fdset = {} /\ check = {} /\ n = 0 /\ i = 1
    /\ buff = NoFrame /\ running = TRUE /\ intr = FALSE
    /\ snapshot = <<>> /\ walExists = FALSE /\ walDisk = <<>> /\ walTorn = FALSE
    /\ walH = "closed" /\ walBuf = <<>>
    /\ open = {} /\ rdy = {} /\ backlog = 0
    /\ emptyOk \in BOOLEAN
    /\ lastStop = "none" /\ ret = <<>>
    /\ ref = EmptyTable /\ unacked = {} /\ walWriteFailed = FALSE
    /\ exportFailed = FALSE
    /\ req = NoFrame /\ steps = <<>>

\* rest: the bytes from the read position to the end of the file; before:
\* the same at the last call of buffer_load_wal; ret: what that call
\* returned; count: the calls that returned 1
NoFile == [stage |-> "none", rest |-> <<>>, before |-> <<>>, ret |-> 0,
           count |-> 0]

\* everything the server model owns, for the actions that leave it alone
serverVars == <<pc, procVars, diskVars, walH, walBuf, sockVars, emptyOk,
                lastStop, ret, ghostVars>>

NoCore == [table |-> EmptyTable, op_add |-> 0, op_del |-> 0]
NoReplay == [stage |-> "none", core |-> NoCore, frames |-> <<>>,
             replayed |-> FALSE, out |-> [ret |-> 0] @@ NoCore,
             first |-> HResult(0, EmptyTable, 0, 0, NoFrame, <<>>, <<>>),
             dispatched |-> FALSE,
             live |-> HResult(0, EmptyTable, 0, 0, NoFrame, <<>>, <<>>)]
\* a request (type, key, val) and the frame an encoder made of it, or a
\* frame as it came off the wire (raw), and what the decoder of its type
\* returned for it
NoCbor == [stage |-> "none", raw |-> FALSE, type |-> "none", key |-> Null,
           val |-> Null, frame |-> NoFrame,
           dec |-> [ret |-> 0, key |-> <<>>, val |-> <<>>], n |-> 0]

\* the variables of the codec and replay functions taken by themselves
pureVars == <<hdr, file, replay, cbor>>

Init ==
    /\ InitServer
    /\ hdr = NoHdr /\ file = NoFile /\ replay = NoReplay /\ cbor = NoCbor

\* What dies with the process: its memory, its descriptors, the stdio buffer.
ProcessGone ==
    /\ pc' = "down"
    /\ table' = EmptyTable /\ op_add' = 0 /\ op_del' = 0
    /\ conn' = NoConn /\ fdset' = {} /\ check' = {} /\ n' = 0 /\ i' = 1
    /\ buff' = NoFrame /\ running' = TRUE /\ intr' = FALSE
    /\ walH' = "closed" /\ walBuf' = <<>>
    /\ open' = {} /\ rdy' = {} /\ backlog' = 0
    /\ req' = NoFrame /\ steps' = <<>>

\* ------------------------------------------------- table_main.c: main
\* Load the snapshot if present, replay the WAL if present, then enter
\* victor_table_server, which opens the WAL for append and clears conn.
LoadedCore ==
    LET t0 == IF snapshot = <<>> THEN EmptyTable ELSE snapshot[1]
        c0 == [table |-> t0, op_add |-> 0, op_del |-> 0]
    IN  IF walExists
        THEN victor_table_loadwal(c0, walDisk, walTorn, emptyOk)
        ELSE [ret |-> 0, table |-> t0, op_add |-> 0, op_del |-> 0]

\* the bytes replay adds to the WAL file it reads
LoadedDumps ==
    LET t0 == IF snapshot = <<>> THEN EmptyTable ELSE snapshot[1]
    IN  IF walExists
        THEN ReplayDumps([table |-> t0, op_add |-> 0, op_del |-> 0], walDisk, emptyOk)
        ELSE <<>>

Start ==
    /\ pc = "down"
    /\ LoadedCore.ret = 0
    /\ table' = LoadedCore.table
    /\ op_add' = LoadedCore.op_add
    /\ op_del' = LoadedCore.op_del
    /\ walExists' = TRUE
    /\ walH' = "linked"
    /\ conn' = NoConn /\ fdset' = {server}
    /\ pc' = "looptest"
    /\ ref' = LoadedCore.table /\ unacked' = {} /\ walWriteFailed' = FALSE
    /\ exportFailed' = FALSE
    /\ lastStop' = "up" /\ ret' = <<>>
    /\ walDisk' = walDisk \o LoadedDumps
    /\ UNCHANGED <<check, n, i, buff, running, intr, snapshot, walTorn,
                   walBuf, sockVars, emptyOk, pureVars, req, steps>>

StartFails ==
    /\ pc = "down"
    /\ LoadedCore.ret # 0
    /\ lastStop' = "startfail" /\ ret' = <<-1>>
    /\ UNCHANGED <<pc, procVars, diskVars, walH, walBuf, sockVars, emptyOk, pureVars, ghostVars>>

\* ------------------------------------- victor_table_server: main loop
\* while (running)
LoopTest ==
    /\ pc = "looptest"
    /\ pc' = IF running THEN "select" ELSE "closing"
    /\ UNCHANGED <<procVars, diskVars, walH, walBuf, sockVars, emptyOk, ret, pureVars, lastStop, ghostVars>>

Readable == (IF backlog > 0 THEN {server} ELSE {}) \cup rdy

\* select() returns the watched descriptors that are readable, or fails:
\* EINTR when a signal interrupted it (continue), EBADF when the set holds
\* an invalid descriptor (fatal, break).
Select ==
    /\ pc = "select"
    /\ \/ /\ intr
          /\ pc' = "looptest" /\ intr' = FALSE
          /\ UNCHANGED <<check, n, i>>
       \/ /\ -1 \in fdset
          /\ pc' = "closing"
          /\ UNCHANGED <<check, n, i, intr>>
       \/ /\ -1 \notin fdset
          /\ fdset \cap Readable # {}
          /\ check' = fdset \cap Readable
          /\ n' = Cardinality(fdset \cap Readable)
          /\ i' = 1
          /\ pc' = IF server \in Readable THEN "accept" ELSE "conns"
          /\ UNCHANGED intr
    /\ UNCHANGED <<table, op_add, op_del, conn, fdset, buff, running, diskVars,
                   walH, walBuf, sockVars, emptyOk, ret, pureVars, lastStop, ghostVars>>

FreeSlots == {s \in Slots : conn[s] = -1}
FirstFree == CHOOSE s \in FreeSlots : \A u \in FreeSlots : s <= u
\* The descriptor accept returns is one not in use; the program only stores
\* and compares descriptors, so the model names the new one after the slot it
\* will go to (and server + MAX_CONNECTIONS + 1 when no slot is free).
NewFd == IF FreeSlots # {} THEN server + FirstFree ELSE server + MAX_CONNECTIONS + 1

\* StoreAccepted without the close of a connection that finds no free slot
StoreAccepted_no_close(sd) ==
    IF FreeSlots # {}
    THEN /\ conn' = [conn EXCEPT ![FirstFree] = sd]
         /\ fdset' = fdset \cup {sd}
         /\ open' = IF sd = -1 THEN open ELSE open \cup {sd}
    ELSE /\ conn' = conn
         /\ fdset' = fdset
         /\ open' = IF sd = -1 THEN open ELSE open \cup {sd}

\* StoreAccepted with FD_SET done also for a connection that finds no free slot
StoreAccepted_watch_unstored(sd) ==
    IF FreeSlots # {}
    THEN /\ conn' = [conn EXCEPT ![FirstFree] = sd]
         /\ fdset' = fdset \cup {sd}
         /\ open' = IF sd = -1 THEN open ELSE open \cup {sd}
    ELSE /\ conn' = conn
         /\ fdset' = fdset \cup {sd}
         /\ open' = open

\* What the loop does with the descriptor sd that unix_accept returned: store
\* it in the first free slot and watch it, or close it when no slot is free.
StoreAccepted(sd) ==
    IF FreeSlots # {}
    THEN /\ conn' = [conn EXCEPT ![FirstFree] = sd]
         /\ fdset' = fdset \cup {sd}
         /\ open' = IF sd = -1 THEN open ELSE open \cup {sd}
    ELSE /\ conn' = conn
         /\ fdset' = fdset
         /\ open' = open

AcceptOk ==
    /\ pc = "accept"
    /\ backlog > 0
    /\ StoreAccepted(NewFd)
    /\ backlog' = backlog - 1
    /\ n' = n - 1 /\ i' = 1 /\ pc' = "conns"
    /\ UNCHANGED <<table, op_add, op_del, check, buff, running, intr, diskVars,
                   walH, walBuf, rdy, emptyOk, ret, pureVars, lastStop, ghostVars>>

\* unix_accept returned -1 with EAGAIN or EINTR: the code goes on with sd = -1.
\* With a free slot it stores -1 there (the slot stays free) and calls
\* FD_SET(-1, &set), which is undefined: the set then holds a descriptor
\* that is not open, or the write lands where select does not look, or a
\* fortified libc aborts the process.
AcceptTransient ==
    /\ pc = "accept"
    /\ \/ /\ StoreAccepted(-1)
          /\ n' = n - 1 /\ i' = 1 /\ pc' = "conns"
          /\ UNCHANGED <<table, op_add, op_del, check, buff, running, intr, walH,
                         walBuf, rdy, backlog, lastStop, ghostVars>>
       \/ /\ FreeSlots # {}
          /\ n' = n - 1 /\ i' = 1 /\ pc' = "conns"
          /\ UNCHANGED <<table, op_add, op_del, conn, fdset, open, check, buff,
                         running, intr, walH, walBuf, rdy, backlog, lastStop,
                         ghostVars>>
       \/ /\ FreeSlots # {}
          /\ ProcessGone
          /\ lastStop' = "killed"
          /\ UNCHANGED <<ref, unacked, walWriteFailed, exportFailed>>
    /\ UNCHANGED <<diskVars, emptyOk, ret, pureVars>>

\* unix_accept returned -1 with another errno: break
AcceptFatal ==
    /\ pc = "accept"
    /\ pc' = "closing"
    /\ UNCHANGED <<procVars, diskVars, walH, walBuf, sockVars, emptyOk, ret, pureVars, lastStop, ghostVars>>

\* The slots the for-loop still serves in this round.
ReadySlots == {s \in Slots : s >= i /\ conn[s] # -1 /\ conn[s] \in check}
NextSlot == CHOOSE s \in ReadySlots : \A u \in ReadySlots : s <= u
MoreToServe == n > 0 /\ ReadySlots # {}

\* CloseSlot without the close of the descriptor
CloseSlot_no_close(s) ==
    /\ fdset' = fdset \ {conn[s]}
    /\ open' = open
    /\ rdy' = rdy \ {conn[s]}
    /\ conn' = [conn EXCEPT ![s] = -1]

\* FD_CLR(conn[i], &set); close(conn[i]); conn[i] = -1;
CloseSlot(s) ==
    /\ fdset' = fdset \ {conn[s]}
    /\ open' = open \ {conn[s]}
    /\ rdy' = rdy \ {conn[s]}
    /\ conn' = [conn EXCEPT ![s] = -1]

\* recv_msg returned -1: the peer closed, or sent less than a frame.
RecvFails ==
    /\ pc = "conns" /\ MoreToServe
    /\ CloseSlot(NextSlot)
    /\ n' = n - 1 /\ i' = NextSlot + 1
    /\ steps' = <<>>
    /\ UNCHANGED <<pc, table, op_add, op_del, check, buff, running, intr, diskVars,
                   walH, walBuf, backlog, emptyOk, ret, pureVars, lastStop, ref, unacked,
                   walWriteFailed, exportFailed, req>>

IsMutation(f) == f.type \in {MSG_PUT, MSG_DEL}
\* The model stops clients from sending mutations once its bounds are reached.
Allowed(f) ==
    IsMutation(f) =>
        /\ op_add + op_del < MaxOps
        /\ Len(walDisk) + Len(walBuf) < MaxWal

\* fwrite(buf->_data, 1, total, wal): the bytes go to the stdio buffer, which
\* stdio writes to the file when it fills, at a point that need not be a
\* frame boundary. With the file unlinked the bytes reach no named file.
\* stdio writes the buffer out when the bytes of an fwrite do not fit: then
\* all earlier frames are in the file, with none, a part or all of the new one.
\* fails: the fwrite returns short (nothing of the frame is kept).
WalAppend(dump, fails) ==
    IF dump = <<>> \/ walH # "linked"
    THEN UNCHANGED <<walDisk, walBuf, walTorn, walWriteFailed>>
    ELSE IF fails
    THEN /\ walWriteFailed' = TRUE
         /\ UNCHANGED <<walDisk, walBuf, walTorn>>
    ELSE /\ UNCHANGED walWriteFailed
         /\ \/ /\ walBuf' = walBuf \o dump
               /\ UNCHANGED <<walDisk, walTorn>>
            \/ /\ walDisk' = walDisk \o walBuf
               /\ walBuf' = dump
               /\ walTorn' \in BOOLEAN
            \/ /\ walDisk' = walDisk \o walBuf \o dump
               /\ walBuf' = <<>>
               /\ walTorn' = FALSE

\* The key a mutation request is about, as the handler decodes it.
ReqKey(f) == buffer_read_kv_master(f, TRUE, FALSE).key
Applied(ev) == ev # <<>> /\ ev[1] = "engine_ok"

\* reference map: PUT(k, v) binds k to v, DEL(k) removes k
RefApply(m, f) ==
    LET d == buffer_read_kv_master(f, TRUE, TRUE)
    IN  IF f.type = MSG_PUT
        THEN [k \in DOMAIN m \cup {d.key} |-> IF k = d.key THEN d.val ELSE m[k]]
        ELSE [k \in DOMAIN m \ {d.key} |-> m[k]]

\* the loop index moved on between recv_msg and send_msg
ReplyIndex_next(s) == s + 1

\* send_msg(conn[i], buff) runs in the iteration of the for-loop that called
\* recv_msg(conn[i], buff): the reply goes out with the index of the request.
ReplyIndex(s) == s

\* a handler that gives up the request when buffer_dump_wal fails
AfterWalFailure_fails_request(res) == [res EXCEPT !.ret = -1]

\* buffer_dump_wal returned non-zero: the handler logs a warning and goes on
\* to buffer_write_op_result with the engine's code
AfterWalFailure(res) == res

\* recv_msg read a frame; the switch dispatches it. A handler that returns -1
\* sends nothing and the connection is closed; otherwise the reply is in buff.
ServeFrame(frames, fails) ==
    /\ pc = "conns" /\ MoreToServe
    /\ \E f \in frames :
         /\ Allowed(f)
         /\ LET done == Dispatch([table |-> table, op_add |-> op_add,
                                  op_del |-> op_del], f, emptyOk)
                res == IF fails THEN AfterWalFailure(done) ELSE done
            IN  /\ table' = res.table
                /\ op_add' = res.op_add
                /\ op_del' = res.op_del
                /\ fails => (res.dump # <<>> /\ walH = "linked")
                /\ WalAppend(res.dump, fails)
                /\ n' = n - 1
                /\ IF res.ret = -1
                   THEN /\ CloseSlot(NextSlot)
                        /\ i' = NextSlot + 1
                        /\ pc' = "conns"
                        /\ buff' = NoFrame /\ req' = NoFrame /\ steps' = res.ev
                        /\ UNCHANGED <<ref, unacked>>
                   ELSE /\ rdy' = rdy \ {conn[NextSlot]}
                        /\ i' = ReplyIndex(NextSlot)
                        /\ pc' = "send"
                        /\ buff' = res.msg /\ req' = f /\ steps' = res.ev
                        /\ IF IsMutation(f) /\ Applied(res.ev)
                           THEN /\ ref' = RefApply(ref, f)
                                /\ unacked' = unacked \cup {ReqKey(f)}
                           ELSE UNCHANGED <<ref, unacked>>
                        /\ UNCHANGED <<conn, fdset, open>>
    /\ UNCHANGED <<check, running, intr, snapshot, walExists, walH, backlog,
                   emptyOk, ret, pureVars, lastStop, exportFailed>>

HandleFrame(fails) == ServeFrame(ClientFrames, fails)
HandleRequest == HandleFrame(FALSE)
\* the same for clients that only read
ReadFrames == {f \in ClientFrames : ~IsMutation(f)}
HandleRead == ServeFrame(ReadFrames, FALSE)

\* The headers of clients that send a header and, for now, nothing more:
\* the all-ones word, and a DEL header that announces one byte.
AllOnes == <<255, 255, 255, 255>>
StallHeaders == {AllOnes, <<48, 0, 0, 1>>}
\* buff while recv_msg waits for a payload: the header bytes only
PartialFrame(b) == [type |-> "partial", payload |-> [wf |-> "header", items |-> b]]

\* recv_msg read a header whose payload has not arrived: it returns -1 if it
\* rejects the header, else it blocks in recv_all (MSG_WAITALL) on that
\* connection, and the one thread of the server with it.
RecvBlocks ==
    /\ pc = "conns" /\ MoreToServe /\ buff = NoFrame
    /\ \E b \in StallHeaders :
         IF recv_msg_payload_len(b) = -1
         THEN /\ CloseSlot(NextSlot)
              /\ n' = n - 1 /\ i' = NextSlot + 1
              /\ steps' = <<"bad_header">>
              /\ UNCHANGED <<pc, buff>>
         ELSE /\ recv_msg_payload_len(b) > 0
              /\ pc' = "recvwait" /\ buff' = PartialFrame(b)
              /\ UNCHANGED <<conn, fdset, open, rdy, n, i, steps>>
    /\ UNCHANGED <<table, op_add, op_del, check, running, intr, diskVars, walH,
                   walBuf, backlog, emptyOk, ret, pureVars, lastStop, ref, unacked,
                   walWriteFailed, exportFailed, req>>

\* buff once the payload is in: the frame is whole and is served next
CompleteFrame(b) == [type |-> "partial", payload |-> [wf |-> "whole", items |-> b]]

\* the rest of the frame arrives: recv_msg returns 0 and the frame is served
RecvCompletes ==
    /\ pc = "recvwait"
    /\ pc' = "conns" /\ buff' = CompleteFrame(buff.payload.items)
    /\ UNCHANGED <<table, op_add, op_del, conn, fdset, check, n, i, running, intr,
                   diskVars, walH, walBuf, sockVars, emptyOk, ret, pureVars, lastStop, ghostVars>>

\* the peer closes instead: recv returns 0, recv_msg -1, the slot is closed
RecvAborts ==
    /\ pc = "recvwait"
    /\ CloseSlot(NextSlot)
    /\ n' = n - 1 /\ i' = NextSlot + 1
    /\ pc' = "conns" /\ buff' = NoFrame /\ steps' = <<>>
    /\ UNCHANGED <<table, op_add, op_del, check, running, intr, diskVars, walH,
                   walBuf, backlog, emptyOk, ret, pureVars, lastStop, ref, unacked,
                   walWriteFailed, exportFailed, req>>
\* the same with the fwrite of buffer_dump_wal failing
HandleRequestWalFails == HandleFrame(TRUE)

\* send_msg(conn[i], buff); on failure the connection is closed.
Send ==
    /\ pc = "send"
    /\ \/ /\ UNCHANGED <<conn, fdset, open, rdy>>
          /\ unacked' = IF IsMutation(req) /\ Applied(steps)
                        THEN unacked \ {ReqKey(req)} ELSE unacked
       \/ /\ CloseSlot(i)
          /\ UNCHANGED unacked
    /\ i' = i + 1 /\ pc' = "conns"
    /\ buff' = NoFrame /\ req' = NoFrame /\ steps' = <<>>
    /\ UNCHANGED <<table, op_add, op_del, check, n, running, intr, diskVars, walH,
                   walBuf, backlog, emptyOk, ret, pureVars, lastStop, ref, walWriteFailed,
                   exportFailed>>

\* EndRound with the counters reset and the WAL unlinked also when kv_dump fails
EndRound_failure_clears ==
    /\ pc = "conns" /\ ~MoreToServe
    /\ IF op_add + op_del > get_export_threshold
       THEN \/ /\ snapshot' = <<table>>
               /\ pc' = "unlink"
               /\ UNCHANGED <<exportFailed, op_add, op_del, walExists, walDisk,
                              walTorn, walH, walBuf>>
            \/ /\ UNCHANGED snapshot
               /\ pc' = "looptest"
               /\ exportFailed' = TRUE
               /\ op_add' = 0 /\ op_del' = 0
               /\ walExists' = FALSE /\ walDisk' = <<>> /\ walTorn' = FALSE
               /\ walH' = "unlinked" /\ walBuf' = <<>>
       ELSE /\ UNCHANGED <<snapshot, exportFailed, op_add, op_del, walExists,
                           walDisk, walTorn, walH, walBuf>>
            /\ pc' = "looptest"
    /\ check' = {} /\ n' = 0 /\ i' = 1 /\ steps' = <<>>
    /\ UNCHANGED <<table, conn, fdset, buff, running, intr, sockVars, emptyOk, ret, pureVars,
                   lastStop, ref, unacked, walWriteFailed, req>>

\* After the for-loop: the export threshold check; kv_dump may fail. (check,
\* n and i are dead until the next select overwrites them: the model clears them.)
EndRound ==
    /\ pc = "conns" /\ ~MoreToServe
    /\ IF op_add + op_del > get_export_threshold
       THEN \/ /\ snapshot' = <<table>>
               /\ pc' = "unlink"
               /\ UNCHANGED exportFailed
            \/ /\ UNCHANGED snapshot
               /\ pc' = "looptest"
               /\ exportFailed' = TRUE
       ELSE /\ UNCHANGED <<snapshot, exportFailed>>
            /\ pc' = "looptest"
    /\ check' = {} /\ n' = 0 /\ i' = 1 /\ steps' = <<>>
    /\ UNCHANGED <<table, op_add, op_del, conn, fdset, buff, running, intr,
                   walExists, walDisk, walTorn, walH, walBuf, sockVars, emptyOk, ret, pureVars,
                   lastStop, ref, unacked, walWriteFailed, req>>

\* unlink(TWAL_FILE); core->op_add_counter = core->op_del_counter = 0;
\* the FILE* wal stays open on the file that lost its name.
Unlink ==
    /\ pc = "unlink"
    /\ walExists' = FALSE /\ walDisk' = <<>> /\ walTorn' = FALSE
    /\ walH' = "unlinked" /\ walBuf' = <<>>
    /\ op_add' = 0 /\ op_del' = 0
    /\ pc' = "looptest"
    /\ exportFailed' = FALSE
    /\ UNCHANGED <<table, conn, fdset, check, n, i, buff, running, intr, snapshot,
                   sockVars, emptyOk, ret, pureVars, lastStop, ref, unacked, walWriteFailed,
                   req, steps>>

\* After the loop: fclose(wal) writes the stdio buffer out, the connections
\* and the listener are closed, victor_table_server returns 0 whichever way
\* the loop was left, main destroys the table and returns that value.
Shutdown ==
    /\ pc = "closing"
    /\ IF walH = "linked"
       THEN /\ walDisk' = walDisk \o walBuf /\ walTorn' = FALSE
       ELSE UNCHANGED <<walDisk, walTorn>>
    /\ ProcessGone
    /\ lastStop' = "graceful" /\ ret' = <<0>>
    /\ UNCHANGED <<snapshot, walExists, emptyOk, pureVars, ref, unacked, walWriteFailed,
                   exportFailed>>

\* The same shutdown, call by call.
\* fclose(wal); free(buff);
CloseWal ==
    /\ pc = "closing"
    /\ IF walH = "linked"
       THEN /\ walDisk' = walDisk \o walBuf /\ walTorn' = FALSE
       ELSE UNCHANGED <<walDisk, walTorn>>
    /\ walH' = "closed" /\ walBuf' = <<>> /\ buff' = NoFrame
    /\ pc' = "closeconns"
    /\ UNCHANGED <<table, op_add, op_del, conn, fdset, check, n, i, running, intr,
                   snapshot, walExists, sockVars, emptyOk, ret, pureVars, lastStop, ghostVars>>

\* for (i = 0; i < MAX_CONNECTIONS; i++) if (conn[i] != -1) close(conn[i]);
\* the slots keep their values, the descriptors are closed
CloseConns ==
    /\ pc = "closeconns"
    /\ open' = open \ {conn[s] : s \in Slots}
    /\ rdy' = rdy \ {conn[s] : s \in Slots}
    /\ pc' = "closeserver"
    /\ UNCHANGED <<procVars, diskVars, walH, walBuf, backlog, emptyOk, ret, pureVars, lastStop,
                   ghostVars>>

\* close(server); return 0;  Connections still in the backlog are reset.
CloseServer ==
    /\ pc = "closeserver"
    /\ backlog' = 0
    /\ pc' = "main"
    /\ UNCHANGED <<procVars, diskVars, walH, walBuf, open, rdy, emptyOk, ret, pureVars, lastStop,
                   ghostVars>>

\* the listening descriptor is open from unix_server in main to the
\* close(server) that ends victor_table_server
ListenerOpen == pc \notin {"down", "main"}

\* close(fd): 0 if fd is open, -1 (EBADF) if it is not
close_ret(isOpen) == IF isOpen THEN 0 ELSE -1

\* table_main.c after victor_table_server returned: close(server) again,
\* unlink(cfg.socket.unix), destroy_kvtable, return ret.
MainReturns ==
    /\ pc = "main"
    /\ ProcessGone
    /\ lastStop' = "graceful" /\ ret' = <<0>>
    /\ UNCHANGED <<diskVars, emptyOk, pureVars, ref, unacked, walWriteFailed, exportFailed>>

\* server.c: handle_signal, run on SIGINT, SIGTERM or SIGHUP. A signal that
\* finds the process blocked in select makes select return EINTR.
Signal ==
    /\ pc = "select"
    /\ running' = FALSE
    /\ intr' = TRUE
    /\ UNCHANGED <<pc, table, op_add, op_del, conn, fdset, check, n, i, buff,
                   diskVars, walH, walBuf, sockVars, emptyOk, ret, pureVars, lastStop, ghostVars>>

\* A signal that arrives anywhere else (also between the test of running and
\* the call of select) only clears the flag.
SignalOutsideSelect ==
    /\ pc \notin {"down", "recvwait"}
    /\ running' = FALSE
    /\ UNCHANGED <<pc, table, op_add, op_del, conn, fdset, check, n, i, buff, intr,
                   diskVars, walH, walBuf, sockVars, emptyOk, ret, pureVars, lastStop, ghostVars>>

\* A signal while recv_msg is blocked in recv: the handlers are installed
\* without SA_RESTART (table_main.c:119-124), so recv returns -1 with EINTR
\* when it has transferred nothing yet (recv_all, then recv_msg, return -1
\* and the slot is closed), or the bytes it has so far (recv_all calls recv
\* again and blocks again).
SignalInRecv ==
    /\ pc = "recvwait"
    /\ running' = FALSE
    /\ \/ /\ CloseSlot(NextSlot)
          /\ n' = n - 1 /\ i' = NextSlot + 1
          /\ pc' = "conns" /\ buff' = NoFrame /\ steps' = <<>>
       \/ UNCHANGED <<pc, conn, fdset, open, rdy, n, i, buff, steps>>
    /\ UNCHANGED <<table, op_add, op_del, check, intr, diskVars, walH, walBuf,
                   backlog, emptyOk, ret, pureVars, lastStop, ref, unacked, walWriteFailed,
                   exportFailed, req>>

\* SIGKILL (or power loss of the process): nothing is flushed or closed.
Crash ==
    /\ pc # "down"
    /\ ProcessGone
    /\ lastStop' = "killed"
    /\ UNCHANGED <<diskVars, emptyOk, ret, pureVars, ref, unacked, walWriteFailed, exportFailed>>

\* ------------------------------------------------------------ clients
\* Clients act while the server waits in select.
ClientConnect ==
    /\ pc = "select"
    /\ backlog < MaxBacklog
    /\ backlog' = backlog + 1
    /\ UNCHANGED <<pc, procVars, diskVars, walH, walBuf, open, rdy, emptyOk, ret, pureVars,
                   lastStop, ghostVars>>

\* A client writes a request (or closes its end): its descriptor is readable.
ClientSend ==
    /\ pc = "select"
    /\ \E d \in open \ rdy : rdy' = rdy \cup {d}
    /\ UNCHANGED <<pc, procVars, diskVars, walH, walBuf, open, backlog, emptyOk, ret, pureVars,
                   lastStop, ghostVars>>

Next ==
    \/ Start \/ StartFails \/ LoopTest \/ Select
    \/ AcceptOk
    \/ RecvFails \/ HandleRequest \/ Send \/ EndRound \/ Unlink
    \/ Shutdown \/ Signal \/ Crash
    \/ ClientConnect \/ ClientSend

Spec == Init /\ [][Next]_vars

\* The same program with the rare failures of its system calls (accept
\* failing, fwrite failing) and with signals at every point of the loop.
NextFaults ==
    \/ Next
    \/ AcceptTransient \/ AcceptFatal
    \/ HandleRequestWalFails
    \/ SignalOutsideSelect

SpecFaults == Init /\ [][NextFaults]_vars

\* The program serving clients that only read, with accept failing: with
\* EAGAIN or EINTR (the loop goes on with sd = -1) or fatally (break).
NextFatal ==
    \/ Start \/ LoopTest \/ Select
    \/ AcceptOk \/ AcceptTransient \/ AcceptFatal
    \/ RecvFails \/ HandleRead \/ Send \/ EndRound
    \/ Shutdown \/ Signal
    \/ ClientConnect \/ ClientSend

SpecFatal == Init /\ [][NextFatal]_vars

\* One run of the server, from its start on, with clients that send a header
\* and hold the payload back.
NextStall ==
    \/ Start \/ LoopTest \/ Select
    \/ AcceptOk
    \/ RecvFails \/ HandleRequest \/ Send \/ EndRound \/ Unlink
    \/ RecvBlocks \/ RecvCompletes \/ RecvAborts
    \/ ClientConnect \/ ClientSend

SpecStall == Init /\ [][NextStall]_vars

\* One run of the server, from its start on, on a disk where an fwrite on
\* the WAL can fail.
NextWalFault ==
    \/ Start \/ LoopTest \/ Select
    \/ AcceptOk
    \/ RecvFails \/ HandleRequest \/ HandleRequestWalFails
    \/ Send \/ EndRound \/ Unlink
    \/ ClientConnect \/ ClientSend
SpecWalFault == Init /\ [][NextWalFault]_vars

\* The header codec by itself: a header with type up to MaxHdrType and a
\* length around each byte boundary of the 28-bit field is serialized, and
\* the 4 bytes, if hdr_serialize produced them, are deserialized.
MaxHdrType == 16
\* The fields of proto_header_t are int: negative values are inputs too.
HdrLens == {-4, -1, 0, 1, 255, 256, 65535, 65536, 16777215, 16777216,
            MSG_MAXLEN - 1, MSG_MAXLEN, MSG_MAXLEN + 1}
HdrInputs == {[NoHdr EXCEPT !.stage = "in", !.type = t, !.len = l] :
                 t \in (-1)..MaxHdrType, l \in HdrLens}

InitHeader ==
    /\ InitServer /\ hdr \in HdrInputs
    /\ file = NoFile /\ replay = NoReplay /\ cbor = NoCbor

Serialize ==
    /\ hdr.stage = "in"
    /\ hdr' = [hdr EXCEPT !.stage = "bytes",
                          !.ret = hdr_serialize(hdr.type, hdr.len).ret,
                          !.bytes = hdr_serialize(hdr.type, hdr.len).bytes]
    /\ UNCHANGED <<serverVars, file, replay, cbor>>

Deserialize ==
    /\ hdr.stage = "bytes" /\ hdr.ret = 0
    /\ hdr' = [hdr EXCEPT !.stage = "out", !.out = hdr_deserialize(hdr.bytes)]
    /\ UNCHANGED <<serverVars, file, replay, cbor>>

\* send_msg on a stream that takes every byte: hdr_serialize, then
\* send_all(fd, _data, hdr.len + 4), which writes that many bytes (the
\* lengths drawn here keep hdr.len + 4 from going below 0, where the
\* conversion to size_t would wrap).
send_msg(type, len) ==
    IF hdr_serialize(type, len).ret < 0 THEN [ret |-> -1, written |-> 0]
    ELSE [ret |-> 0, written |-> len + 4]

SendMsg ==
    /\ hdr.stage = "in"
    /\ hdr' = [hdr EXCEPT !.stage = "sent",
                          !.ret = send_msg(hdr.type, hdr.len).ret,
                          !.written = send_msg(hdr.type, hdr.len).written]
    /\ UNCHANGED <<serverVars, file, replay, cbor>>

NextHeader == Serialize \/ Deserialize \/ SendMsg
SpecHeader == InitHeader /\ [][NextHeader]_vars

\* The WAL reader by itself, on files given byte by byte: every sequence of
\* up to MaxFileLen bytes of WalBytes, which holds whole frames, frames cut
\* inside the header or the payload, and headers announcing more than any
\* file here has.
MaxFileLen == 7
WalBytes == {0, 1, 2, 16}
RECURSIVE SeqsUpTo(_, _)
SeqsUpTo(S, k) ==
    IF k = 0 THEN {<<>>}
    ELSE LET shorter == SeqsUpTo(S, k - 1)
         IN  shorter \cup {Append(q, x) : q \in {r \in shorter : Len(r) = k - 1},
                                           x \in S}
WalFiles == SeqsUpTo(WalBytes, MaxFileLen)

\* buffer_load_wal that takes the end of the file for an error
buffer_load_wal_eof_is_error(b) ==
    IF Len(b) < 4 THEN [ret |-> -1, rest |-> <<>>]
    ELSE LET h == hdr_deserialize(SubSeq(b, 1, 4))
         IN  IF h.ret < 0 \/ h.len > MSG_MAXLEN \/ Len(b) - 4 < h.len
             THEN [ret |-> -1, rest |-> <<>>]
             ELSE [ret |-> 1, rest |-> SubSeq(b, 5 + h.len, Len(b))]

\* buffer.c: buffer_load_wal on a file whose unread bytes are b (fread
\* itself does not fail here: a short count means the file ended)
buffer_load_wal(b) ==
    IF Len(b) = 0 THEN [ret |-> 0, rest |-> <<>>]
    ELSE IF Len(b) < 4 THEN [ret |-> -1, rest |-> <<>>]
    ELSE LET h == hdr_deserialize(SubSeq(b, 1, 4))
         IN  IF h.ret < 0 THEN [ret |-> -1, rest |-> <<>>]
             ELSE IF h.len > MSG_MAXLEN THEN [ret |-> -1, rest |-> <<>>]
             ELSE IF Len(b) - 4 < h.len THEN [ret |-> -1, rest |-> <<>>]
             ELSE [ret |-> 1, rest |-> SubSeq(b, 5 + h.len, Len(b))]

InitWalFile ==
    /\ InitServer /\ hdr = NoHdr /\ replay = NoReplay /\ cbor = NoCbor
    /\ file \in {[NoFile EXCEPT !.stage = "new", !.rest = b] : b \in WalFiles}

\* one turn of the loop of victor_table_loadwal: the next call of the reader
LoadWal ==
    /\ file.stage \in {"new", "read"}
    /\ LET r == buffer_load_wal(file.rest)
       IN  file' = [stage |-> IF r.ret = 1 THEN "read" ELSE "end",
                    rest |-> r.rest, before |-> file.rest, ret |-> r.ret,
                    count |-> IF r.ret = 1 THEN file.count + 1 ELSE file.count]
    /\ UNCHANGED <<serverVars, hdr, replay, cbor>>

NextWalFile == LoadWal
SpecWalFile == InitWalFile /\ [][NextWalFile]_vars

\* WAL replay and the dispatcher by themselves: a core (the table with one
\* key or none, counters 0 as after load_kvtable) and a WAL of up to
\* MaxReplay whole frames, which may hold what the server never writes:
\* frames of other types, frames whose payload does not decode, frames the
\* engine refuses.
MaxReplay == 3
WalFrames ==
    {Frame(MSG_PUT, p) : p \in KeyValue \cup {Arr(<<UInt(0)>>)}}
    \cup {Frame(MSG_DEL, p) : p \in KeyOnly}
    \cup {Frame(MSG_GET, Arr(<<Bytes(<<1>>)>>)), Frame(MSG_ADD, Arr(<<Bytes(<<>>)>>))}
Tables ==
    {EmptyTable} \cup {[k \in {key} |-> v] : key \in KeyStrings \ {<<>>},
                                              v \in ValStrings}
InitReplay ==
    /\ InitServer /\ hdr = NoHdr /\ file = NoFile /\ cbor = NoCbor
    /\ replay \in {[NoReplay EXCEPT !.stage = "new", !.core.table = t,
                                     !.frames = fs] :
                       t \in Tables, fs \in SeqsUpTo(WalFrames, MaxReplay)}
    /\ \A k \in DOMAIN replay.core.table :
          replay.core.table[k] = <<>> => emptyOk

\* victor_table_loadwal on the whole file; first is what its first turn did
ReplayWal ==
    /\ replay.stage = "new" /\ ~replay.replayed
    /\ replay' = [replay EXCEPT
          !.replayed = TRUE,
          !.out = victor_table_loadwal(replay.core, replay.frames, FALSE, emptyOk),
          !.first = IF replay.frames = <<>> THEN @
                    ELSE ReplayFrame(replay.core, replay.frames[1], emptyOk)]
    /\ UNCHANGED <<serverVars, hdr, file, cbor>>

\* the same first frame arriving from a client instead: the switch of the
\* connection loop, with the WAL open
LiveDispatch ==
    /\ replay.stage = "new" /\ ~replay.dispatched /\ replay.frames # <<>>
    /\ replay' = [replay EXCEPT
          !.dispatched = TRUE,
          !.live = Dispatch(replay.core, replay.frames[1], emptyOk)]
    /\ UNCHANGED <<serverVars, hdr, file, cbor>>

NextReplay == ReplayWal \/ LiveDispatch
SpecReplay == InitReplay /\ [][NextReplay]_vars

\* The CBOR codec of kvproto.c by itself: every request the encoders can be
\* given (NULL pointers included) goes through its encoder and the decoder
\* of its type, and every payload a peer can send goes through each
\* decoder.
KeyArgs == {Null} \cup {Ptr(k) : k \in KeyStrings}
ValArgs == {Null} \cup {Ptr(v) : v \in ValStrings}
CodecRequests ==
    {[NoCbor EXCEPT !.stage = "request", !.type = MSG_PUT, !.key = k, !.val = v] :
        k \in KeyArgs, v \in ValArgs}
    \cup {[NoCbor EXCEPT !.stage = "request", !.type = t, !.key = k] :
        t \in {MSG_DEL, MSG_GET}, k \in KeyArgs}
    \cup {[NoCbor EXCEPT !.stage = "request", !.type = MSG_GET_RESULT, !.val = v] :
        v \in ValArgs}
WirePayloads ==
    Malformed \cup KeyOnly \cup KeyValue
    \cup {Arr(<<Bytes(k), UInt(0)>>) : k \in KeyStrings}
    \cup {Arr(<<UInt(0), Bytes(<<1>>)>>), Arr(<<>>)}
WireFrames ==
    {[NoCbor EXCEPT !.stage = "frame", !.raw = TRUE, !.type = t,
                    !.frame = Frame(t, p)] :
        t \in {MSG_PUT, MSG_DEL, MSG_GET, MSG_GET_RESULT}, p \in WirePayloads}

\* SEARCH frames: the count n in every width, at 0, at the largest value of
\* the width and around INT_MAX
SearchCounts ==
    {UIntW("uint8", <<b>>) : b \in {0, 5, 255}}
    \cup {UIntW("uint16", <<b, c>>) : b \in {0, 255}, c \in {5, 255}}
    \cup {UIntW("uint32", <<b, c, c, d>>) :
              b \in {0, 127, 128, 255}, c \in {0, 255}, d \in {0, 5, 255}}
    \cup {UIntW("uint64", <<a, a, a, e, b, c, c, d>>) :
              a \in {0, 255}, e \in {0, 1, 255}, b \in {0, 127, 128, 255},
              c \in {0, 255}, d \in {5, 255}}
SearchFrames ==
    {[NoCbor EXCEPT !.stage = "frame", !.raw = TRUE, !.type = MSG_SEARCH,
                    !.frame = Frame(MSG_SEARCH, Arr(<<Floats, c>>))] :
        c \in SearchCounts \cup {Bytes(<<1>>)}}

InitCodec ==
    /\ InitServer /\ hdr = NoHdr /\ file = NoFile /\ replay = NoReplay
    /\ cbor \in CodecRequests \cup WireFrames \cup SearchFrames

Encode ==
    /\ cbor.stage = "request"
    /\ LET e == IF cbor.type = MSG_PUT THEN buffer_write_put(cbor.key, cbor.val)
                ELSE IF cbor.type = MSG_DEL THEN buffer_write_del(cbor.key)
                ELSE IF cbor.type = MSG_GET THEN buffer_write_get(cbor.key)
                ELSE buffer_write_kv_master(MSG_GET_RESULT, Null, cbor.val)
       IN  cbor' = [cbor EXCEPT !.stage = IF e.ret = 0 THEN "frame" ELSE "failed",
                                !.frame = e.frame]
    /\ UNCHANGED <<serverVars, hdr, file, replay>>

DecodeSearch ==
    /\ cbor.stage = "frame" /\ cbor.type = MSG_SEARCH
    /\ cbor' = [cbor EXCEPT
          !.stage = "decoded",
          !.dec.ret = buffer_read_search(cbor.frame).ret,
          !.n = buffer_read_search(cbor.frame).n]
    /\ UNCHANGED <<serverVars, hdr, file, replay>>

Decode ==
    /\ cbor.stage = "frame" /\ cbor.type # MSG_SEARCH
    /\ cbor' = [cbor EXCEPT
          !.stage = "decoded",
          !.dec = IF cbor.type = MSG_PUT THEN buffer_read_put(cbor.frame)
                  ELSE IF cbor.type = MSG_DEL THEN buffer_read_del(cbor.frame)
                  ELSE IF cbor.type = MSG_GET THEN buffer_read_get(cbor.frame)
                  ELSE buffer_read_get_result(cbor.frame)]
    /\ UNCHANGED <<serverVars, hdr, file, replay>>

NextCodec == Encode \/ Decode \/ DecodeSearch
SpecCodec == InitCodec /\ [][NextCodec]_vars

\* The server under read-only traffic with signals at every point. What the
\* server does by itself is weakly fair: the loop goes on whenever it can.
\* What clients do (connect, send, complete a frame, close) is not.
ServerStep ==
    \/ LoopTest \/ Select \/ AcceptOk
    \/ RecvFails \/ HandleRead \/ RecvBlocks
    \/ Send \/ EndRound
    \/ CloseWal \/ CloseConns \/ CloseServer \/ MainReturns

NextSignals ==
    \/ Start \/ ServerStep
    \/ RecvCompletes \/ RecvAborts
    \/ Signal \/ SignalOutsideSelect \/ SignalInRecv
    \/ ClientConnect \/ ClientSend

SpecSignals == Init /\ [][NextSignals]_vars /\ WF_vars(ServerStep)

\* ============================================================== claims
\* t and m hold the same keys with the same values, the keys in ks aside.
AgreeExcept(t, m, ks) ==
    \A k \in KeyStrings \ ks :
        /\ (k \in DOMAIN t) <=> (k \in DOMAIN m)
        /\ k \in DOMAIN m => t[k] = m[k]

\* the step in which a stopped server comes up again
Restarts == pc = "down" /\ pc' = "looptest"

\* C1: after a graceful shutdown and a restart (snapshot load, then WAL
\* replay) the table is the one obtained by applying the acknowledged PUT/DEL
\* requests in order, whatever snapshot flushes happened in between.
C1_GracefulRestartEquivalence ==
    [][(Restarts /\ lastStop = "graceful") => AgreeExcept(table', ref, unacked)]_vars

\* C2: after a SIGKILL at any point and a restart, every PUT/DEL that was
\* acknowledged with OP_RESULT code 0 before the kill is in the recovered table.
C2_KillDurability ==
    [][(Restarts /\ lastStop = "killed") => AgreeExcept(table', ref, unacked)]_vars

\* C3: for a PUT or DEL of live traffic whose engine call succeeds, the engine
\* call comes first, then the append of the request frame to the WAL, then
\* the reply: when the reply is about to be sent the append was made, and the
\* request frame is the last frame of the WAL stream.
C3_WalBeforeReply ==
    (pc = "send" /\ IsMutation(req) /\ Applied(steps)) =>
        /\ \E a, b \in DOMAIN steps :
              a < b /\ steps[a] = "engine_ok" /\ steps[b] = "wal"
        /\ walH = "linked" =>
              /\ walDisk \o walBuf # <<>>
              /\ (walDisk \o walBuf)[Len(walDisk \o walBuf)] = req

\* a successful DEL and a successful PUT each wait for their reply
C3_Witness ==
    /\ pc = "send" /\ req.type = MSG_DEL /\ Applied(steps)
    /\ walH = "linked" /\ Len(walDisk \o walBuf) = 2

\* the frames of the WAL stream: the file, then what stdio still holds
WalStream == walDisk \o walBuf

\* C4: in every reachable state the WAL file is a concatenation of complete
\* frames, each one a PUT or DEL request frame as a client sent it and as the
\* engine accepts it: no GET, no reply, no rejected mutation, no partial frame.
C4_WalOnlyCompleteMutationFrames ==
    /\ ~walTorn
    /\ \A j \in DOMAIN walDisk :
          LET f == walDisk[j]
              d == buffer_read_put(f)
          IN  /\ f \in ClientFrames /\ IsMutation(f)
              /\ d.ret = 0 /\ d.key # <<>>
              /\ f.type = MSG_PUT => kv_put_code(d.key, d.val, emptyOk) = KV_SUCCESS

\* the step that completes a snapshot flush, and the end of a round
FlushCompletes == pc = "unlink" /\ pc' = "looptest"
RoundEnds == pc = "conns" /\ ~MoreToServe /\ pc' \in {"looptest", "unlink"}

\* C5: when op_add + op_del exceeds the threshold and the export succeeds,
\* afterwards the snapshot file exists (and holds the table), no file is at
\* the WAL path and both counters are 0; the flush comes with threshold + 1
\* counted mutations, never with only threshold, and a round that ends above
\* the threshold always attempts the export.
C5_ThresholdFlush ==
    [][/\ FlushCompletes =>
            /\ op_add + op_del >= EXPORT_THRESHOLD + 1
            /\ (walH = "linked" /\ ~walWriteFailed) =>
                    Len(WalStream) >= EXPORT_THRESHOLD + 1
            /\ snapshot' = <<table'>> /\ ~walExists'
            /\ op_add' = 0 /\ op_del' = 0
       /\ snapshot' # snapshot => op_add + op_del >= EXPORT_THRESHOLD + 1
       /\ (RoundEnds /\ op_add + op_del >= EXPORT_THRESHOLD + 1) =>
            (pc' = "unlink" \/ exportFailed')
      ]_vars

\* a flush has completed
C5_Witness ==
    /\ pc = "looptest" /\ walH = "unlinked" /\ ~walExists
    /\ snapshot # <<>> /\ snapshot[1] # EmptyTable
    /\ op_add = 0 /\ op_del = 0

\* C6: the threshold check runs after each successful mutation: while no
\* export has failed, op_add + op_del is at most the threshold when a request
\* starts being handled, and never more than threshold + 1.
C6_CheckAfterEachMutation ==
    ~exportFailed =>
        /\ (pc = "conns" /\ MoreToServe) => op_add + op_del <= EXPORT_THRESHOLD
        /\ op_add + op_del <= EXPORT_THRESHOLD + 1

\* C7: when the snapshot export fails, the WAL file, the WAL handle and both
\* counters are as before, the snapshot and the table too, and the server
\* goes on with its loop and its connections.
C7_ExportFailureKeepsWal ==
    [][(RoundEnds /\ op_add + op_del > EXPORT_THRESHOLD /\ pc' = "looptest") =>
            /\ walExists' = walExists /\ walDisk' = walDisk /\ walTorn' = walTorn
            /\ walH' = walH /\ walBuf' = walBuf
            /\ op_add' = op_add /\ op_del' = op_del
            /\ table' = table /\ snapshot' = snapshot
            /\ conn' = conn /\ fdset' = fdset /\ open' = open
      ]_vars

\* after a failed export the WAL still holds its frames at its path and a GET
\* is answered with a value
C7_Witness ==
    /\ exportFailed /\ pc = "send" /\ req.type = MSG_GET
    /\ buff.type = MSG_GET_RESULT
    /\ walExists /\ walH = "linked" /\ Len(WalStream) >= EXPORT_THRESHOLD + 1
    /\ op_add + op_del >= EXPORT_THRESHOLD + 1

\* C8: after any restart, also one that replayed a non-empty WAL, both
\* counters are 0 when the server starts accepting requests.
C8_CountersZeroAfterRestart ==
    [][Restarts => (op_add' = 0 /\ op_del' = 0)]_vars

\* a GET request with a key of one byte or more waits for its reply
GetServed ==
    /\ pc = "send" /\ req.type = MSG_GET
    /\ buffer_read_get(req).ret = 0 /\ ReqKey(req) # <<>>

NotFoundReply == buffer_write_op_result(MSG_ERROR, KV_KEY_NOT_FOUND)

C10_ConnectionCap ==
    /\ Cardinality(open) <= MAX_CONNECTIONS
    /\ Cardinality({s \in Slots : conn[s] # -1}) <= MAX_CONNECTIONS
    /\ open = {conn[s] : s \in Slots} \ {-1}

\* a connection was accepted in a round in which every slot was already taken
C10_Witness ==
    /\ pc = "conns" /\ server \in check
    /\ \A s \in Slots : conn[s] # -1 /\ conn[s] \in check
    /\ backlog = 0 /\ Cardinality(open) = MAX_CONNECTIONS

\* C11: a client that connects while every slot is occupied has its socket
\* closed at once (not stored, not watched); the existing connections, their
\* slots and the watched set are unchanged and the round goes on serving them.
C11_FullTableClosesNewcomer ==
    [][(pc = "accept" /\ pc' = "conns" /\ FreeSlots = {}) =>
            /\ conn' = conn /\ fdset' = fdset /\ open' = open
            /\ rdy' = rdy /\ check' = check
            /\ NewFd \notin open' /\ NewFd \notin fdset'
            /\ \A s \in Slots : conn'[s] # NewFd
      ]_vars

\* after such a connection was turned away, a request of an existing
\* connection is answered in the same round, all slots still occupied
C11_Witness ==
    /\ pc = "send" /\ server \in check
    /\ \A s \in Slots : conn[s] # -1 /\ conn[s] \in check
    /\ buff.type \in {MSG_OP_RESULT, MSG_GET_RESULT}

\* the step that serves one received frame (recv_msg succeeded)
ServesFrame == pc = "conns" /\ MoreToServe /\ steps' # <<>>
Rejected(ev) == ev \in {<<"decode_fail">>, <<"bad_type">>}

ReplyCode(m) == m.payload.items[1].b[1]
EngineRejected(ev) == ev # <<>> /\ ev[1] = "engine_fail"

\* C13: when the engine rejects a well-formed request (a PUT or DEL that
\* fails in the table, a GET of a missing key) a reply frame with a non-zero
\* code, OP_RESULT or ERROR, is made for the client, and the connection stays
\* open and watched, also after that reply was sent.
C13_EngineErrorRepliesAndStaysOpen ==
    [][/\ (ServesFrame /\ EngineRejected(steps')) =>
            /\ pc' = "send"
            /\ buff'.type \in {MSG_OP_RESULT, MSG_ERROR}
            /\ ReplyCode(buff') # KV_SUCCESS
            /\ conn' = conn /\ fdset' = fdset /\ open' = open
            /\ table' = table
       /\ (pc = "send" /\ EngineRejected(steps) /\ pc' = "conns" /\ conn'[i] # -1) =>
            /\ conn' = conn /\ fdset' = fdset /\ open' = open
      ]_vars

\* a DEL of a key the table does not hold is about to be answered
C13_Witness ==
    /\ pc = "send" /\ EngineRejected(steps) /\ req.type = MSG_DEL
    /\ buff = buffer_write_op_result(MSG_OP_RESULT, KV_KEY_NOT_FOUND)
    /\ conn[i] \in open /\ snapshot # <<>>

ReplyTypes == {MSG_OP_RESULT, MSG_GET_RESULT, MSG_ERROR}

\* C14: a request frame that was received has exactly one outcome. Serving it
\* either leaves one reply frame to send on its connection, or closes that
\* connection with nothing to send; the reply is sent once (the loop moves
\* to the next slot with an empty buffer) or, if sending fails, the
\* connection is closed; only the end of the process can come in between.
C14_OneOutcomePerRequest ==
    [][/\ ServesFrame =>
            \/ /\ pc' = "send" /\ i' = NextSlot
               /\ buff'.type \in ReplyTypes
               /\ conn' = conn /\ conn[NextSlot] \in open'
            \/ /\ pc' = "conns" /\ i' = NextSlot + 1
               /\ buff' = NoFrame
               /\ conn'[NextSlot] = -1 /\ conn[NextSlot] \notin open'
       /\ pc = "send" =>
            \/ /\ pc' = "conns" /\ i' = i + 1
               /\ buff' = NoFrame /\ req' = NoFrame
               /\ \/ conn' = conn /\ open' = open
                  \/ conn'[i] = -1 /\ conn[i] \notin open'
            \/ pc' = "down"
       /\ pc' = "send" => (pc = "conns" /\ MoreToServe)
      ]_vars

\* in one round the request of slot 1 was answered and the frame of slot 2
\* was turned away with its connection closed
C14_Witness ==
    /\ pc = "conns" /\ Rejected(steps) /\ i = 3
    /\ conn[2] = -1 /\ conn[1] # -1 /\ conn[1] \in check /\ conn[1] \in open

\* the reply is of the kind the request asks for
ReplyMatches(q, m) ==
    /\ q.type \in {MSG_PUT, MSG_DEL} => m.type = MSG_OP_RESULT
    /\ q.type = MSG_GET => m.type \in {MSG_GET_RESULT, MSG_ERROR}

\* C15: on each connection the k-th reply answers the k-th request: a request
\* read from a connection is answered, with the reply of its handler, on the
\* slot it was read from before any other frame is read, whatever other
\* connections are ready; sending touches no other connection.
C15_ReplyOnRequestConnection ==
    [][/\ (ServesFrame /\ pc' = "send") =>
            /\ i' = NextSlot /\ conn'[i'] = conn[NextSlot]
            /\ conn[NextSlot] \in check
            /\ rdy' = rdy \ {conn[NextSlot]}
            /\ req' \in ClientFrames /\ ReplyMatches(req', buff')
            /\ buff' = Dispatch([table |-> table, op_add |-> op_add,
                                 op_del |-> op_del], req', emptyOk).msg
       /\ pc = "send" =>
            /\ pc' \in {"conns", "down"}
            /\ pc' = "conns" =>
                  /\ \A s \in Slots \ {i} : conn'[s] = conn[s]
                  /\ open \ open' \subseteq {conn[i]}
                  /\ rdy' \subseteq rdy /\ table' = table
      ]_vars

\* two connections were ready in one round: the first was answered and is
\* still open, the second is being answered with the value it asked for
C15_Witness ==
    /\ pc = "send" /\ i = 2 /\ conn[1] # -1 /\ conn[1] \in check
    /\ req.type = MSG_GET /\ buff.type = MSG_GET_RESULT

\* C16: a client sends the header 0xFFFFFFFF: the server rejects the header,
\* closing that connection without a reply and without waiting for payload
\* bytes, so that the other connections go on being answered.
C16_OverflowHeaderRejected ==
    [][(/\ pc = "conns" /\ MoreToServe
        /\ buff' = PartialFrame(AllOnes) \/ steps' = <<"bad_header">>) =>
            /\ pc' = "conns" /\ steps' = <<"bad_header">>
            /\ conn'[NextSlot] = -1 /\ conn[NextSlot] \notin open'
      ]_vars

\* C17: once SIGINT, SIGTERM or SIGHUP was delivered the main loop exits and
\* the server shuts down, wherever in the loop the signal arrived and with
\* no further client activity.
C17_SignalLeadsToShutdown == (~running) ~> (pc = "down")

\* C18: a shutdown signal that arrives while a request is being processed
\* (received, dispatched, logged or answered) lets that request complete,
\* reply included: the signal itself closes no connection and drops no
\* request, and the loop exits only at the next test of the flag.
C18_SignalCompletesRequest ==
    [][/\ (running /\ ~running' /\ pc \in {"conns", "recvwait", "send"}) =>
            /\ pc' = pc /\ conn' = conn /\ open' = open /\ buff' = buff
       /\ (~running /\ pc = "send") => pc' = "conns"
       /\ pc' = "closing" => pc \in {"looptest", "select"}
      ]_vars

\* C19: after the loop exits on a signal the resources go in this order:
\* every client connection is closed, then the WAL is closed (and flushed),
\* then the listening socket is closed, once, then the socket path is
\* unlinked and the engine destroyed; no client connection is open when
\* the process exits.
ShutdownPcs == {"closing", "closeconns", "closeserver", "main"}
C19_ShutdownOrder ==
    [][(pc \in ShutdownPcs) =>
         (/\ (walH # "closed" /\ walH' = "closed") =>
                 (open \cap {conn[s] : s \in Slots} = {})
          /\ (ListenerOpen /\ ~(ListenerOpen')) =>
                 (walH = "closed" /\ open = {})
          /\ (pc = "main") => (close_ret(ListenerOpen) = 0 /\ open = {}))
      ]_vars

\* C20: for every type in 0..15 and every len in 0..2^28-1, hdr_serialize
\* succeeds and hdr_deserialize of its 4 bytes gives the same type and len;
\* the bytes are the big-endian 32-bit word (type << 28) | len, whose upper
\* half is type * 2^12 + len / 2^16 and whose lower half is len mod 2^16.
C20_HeaderRoundTrip ==
    (hdr.type \in 0..15 /\ hdr.len \in 0..MSG_MAXLEN) =>
        /\ hdr.stage = "bytes" =>
              /\ hdr.ret = 0 /\ Len(hdr.bytes) = 4
              /\ \A k \in 1..4 : hdr.bytes[k] \in 0..255
              /\ (hdr.bytes[1] * 256) + hdr.bytes[2] =
                     (hdr.type * 4096) + (hdr.len \div 65536)
              /\ (hdr.bytes[3] * 256) + hdr.bytes[4] = hdr.len % 65536
        /\ hdr.stage = "out" =>
              /\ hdr.out.ret = 0
              /\ hdr.out.type = hdr.type /\ hdr.out.len = hdr.len

C20_Witness ==
    /\ hdr.stage = "out" /\ hdr.type = 15 /\ hdr.len = MSG_MAXLEN
    /\ hdr.out.type = 15 /\ hdr.out.len = MSG_MAXLEN
    /\ hdr.bytes = <<255, 255, 255, 255>>

\* C21: sending a frame fails and writes no byte whenever the type is
\* outside 0..15 or the len is outside 0..2^28-1, negative values of the
\* int fields included; otherwise exactly 4 + len bytes are written.
C21_SendRejectsOutOfRange ==
    hdr.stage = "sent" =>
        IF hdr.type \in 0..15 /\ hdr.len \in 0..MSG_MAXLEN
        THEN hdr.ret = 0 /\ hdr.written = 4 + hdr.len
        ELSE hdr.ret = -1 /\ hdr.written = 0

\* C22: the WAL reader returns 0 exactly when no byte remains at a frame
\* boundary, 1 exactly when a whole frame (4 header bytes and the len
\* payload bytes the header announces) was there, leaving the position
\* after it, and -1 exactly when the file ends after 1 to 3 header bytes or
\* before all len payload bytes.
AnnouncedLen(b) ==
    ((b[1] % 16) * 16777216) + (b[2] * 65536) + (b[3] * 256) + b[4]
C22_WalReaderResult ==
    file.stage \in {"read", "end"} =>
        LET b == file.before
            whole == Len(b) >= 4 /\ Len(b) - 4 >= AnnouncedLen(b)
        IN  /\ file.ret \in {-1, 0, 1}
            /\ file.ret = 0 <=> b = <<>>
            /\ file.ret = 1 <=> whole
            /\ file.ret = 1 =>
                  file.rest = SubSeq(b, 5 + AnnouncedLen(b), Len(b))
            /\ file.ret = -1 <=>
                  \/ Len(b) \in 1..3
                  \/ Len(b) >= 4 /\ Len(b) - 4 < AnnouncedLen(b)

C22_Witness ==
    /\ file.stage = "end" /\ file.ret = -1 /\ file.count = 1
    /\ Len(file.before) \in 1..3

\* C23: during WAL replay a frame whose type is neither PUT nor DEL is
\* skipped: it changes neither the table nor the counters, and every later
\* frame is still replayed, so the result is that of the same WAL without
\* those frames.
IsWalType(f) == f.type \in {MSG_PUT, MSG_DEL}
C23_UnknownWalTypeSkipped ==
    replay.replayed =>
        LET known == victor_table_loadwal(replay.core,
                         SelectSeq(replay.frames, IsWalType), FALSE, emptyOk)
        IN  /\ replay.out = known
            /\ (replay.frames # <<>> /\ ~IsWalType(replay.frames[1])) =>
                  /\ replay.first.table = replay.core.table
                  /\ replay.first.op_add = replay.core.op_add
                  /\ replay.first.op_del = replay.core.op_del

C23_Witness ==
    /\ replay.replayed /\ Len(replay.frames) = 3
    /\ replay.core.table = EmptyTable
    /\ replay.frames[1].type = MSG_ADD
    /\ replay.frames[2].type = MSG_GET
    /\ replay.frames[3] = Frame(MSG_PUT, Arr(<<Bytes(<<1>>), Bytes(<<2>>)>>))
    /\ replay.out.ret = 0
    /\ replay.out.table = [k \in {<<1>>} |-> <<2>>]

\* C24: for every table and every PUT or DEL frame, the live path and the
\* replay path leave the table (and the counters) in the same state and
\* return the same; they differ only in that replay appends nothing to the
\* WAL, while the live path appends the frame when the mutation succeeded.
C24_ReplayEqualsLive ==
    (/\ replay.replayed /\ replay.dispatched
     /\ IsWalType(replay.frames[1])) =>
        /\ replay.first.table = replay.live.table
        /\ replay.first.op_add = replay.live.op_add
        /\ replay.first.op_del = replay.live.op_del
        /\ replay.first.ret = replay.live.ret
        /\ replay.first.msg = replay.live.msg
        /\ replay.first.dump = <<>>
        /\ replay.live.dump \in {<<>>, <<replay.frames[1]>>}
        /\ replay.live.dump # <<>> <=> "engine_ok" \in
              {replay.live.ev[j] : j \in 1..Len(replay.live.ev)}

C24_Witness ==
    /\ replay.replayed /\ replay.dispatched
    /\ replay.core.table = [k \in {<<1>>} |-> <<2>>]
    /\ replay.frames[1] = Frame(MSG_DEL, Arr(<<Bytes(<<1>>)>>))
    /\ replay.first.table = EmptyTable /\ replay.live.table = EmptyTable
    /\ replay.first.dump = <<>> /\ replay.live.dump = <<replay.frames[1]>>

\* C25: the WAL grows only at its end, by the frame of the successful
\* mutation the dispatcher has just handled, whichever connection it came
\* from, so its order is the order of handling; and replay at startup
\* applies the frames of the file from first to last on top of the
\* snapshot: a logged PUT(k) followed by a logged DEL(k) leaves k absent.
RECURSIVE RefFold(_, _)
RefFold(m, frames) ==
    IF frames = <<>> THEN m
    ELSE RefApply(RefFold(m, SubSeq(frames, 1, Len(frames) - 1)),
                  frames[Len(frames)])
SnapshotTable == IF snapshot = <<>> THEN EmptyTable ELSE snapshot[1]
C25_WalOrderIsHandlingOrder ==
    [][/\ (pc = "conns" /\ pc' # "down" /\ WalStream' # WalStream) =>
            /\ WalStream' = Append(WalStream, req')
            /\ IsMutation(req') /\ Applied(steps')
       /\ (pc \in {"conns", "send", "select", "accept", "looptest"}) =>
            \/ WalStream' = WalStream
            \/ pc = "conns" /\ Len(WalStream') = Len(WalStream) + 1
            \/ pc' = "down"
       /\ (Restarts /\ walExists) => table' = RefFold(SnapshotTable, walDisk)
      ]_vars

C25_Witness ==
    /\ pc = "looptest" /\ conn = NoConn /\ open = {} /\ lastStop = "up"
    /\ walExists /\ Len(walDisk) = 2 /\ walBuf = <<>>
    /\ walDisk[1].type = MSG_PUT /\ walDisk[2].type = MSG_DEL
    /\ ReqKey(walDisk[1]) = ReqKey(walDisk[2])
    /\ table = EmptyTable /\ snapshot = <<>>

\* C26: when the WAL append of a successful PUT or DEL fails, the request
\* is not failed: the mutation is applied to the table, the reply in the
\* buffer is OP_RESULT with code 0 and it is sent next, on a connection that
\* stays open.
WalAppendFailed ==
    /\ pc = "conns" /\ steps' # <<>> /\ Applied(steps') /\ "wal" \in
          {steps'[j] : j \in 1..Len(steps')}
    /\ walH = "linked" /\ walWriteFailed' /\ WalStream' = WalStream
C26_WalFailureDoesNotFailRequest ==
    [][WalAppendFailed =>
         /\ IsMutation(req') /\ steps'[Len(steps')] = "encode"
         /\ table' = RefApply(table, req')
         /\ op_add' + op_del' = op_add + op_del + 1
         /\ buff' = buffer_write_op_result(MSG_OP_RESULT, KV_SUCCESS)
         /\ pc' = "send"
         /\ conn' = conn /\ open' = open /\ conn'[i'] \in open'
      ]_vars

C26_Witness ==
    /\ pc = "send" /\ walWriteFailed /\ WalStream = <<>>
    /\ req = Frame(MSG_PUT, Arr(<<Bytes(<<1>>), Bytes(<<2>>)>>))
    /\ table = [k \in {<<1>>} |-> <<2>>]
    /\ buff = buffer_write_op_result(MSG_OP_RESULT, KV_SUCCESS)
    /\ conn[i] \in open

\* C27: when the server is killed after the snapshot export succeeded and
\* before the WAL was unlinked, the restart (snapshot load, then replay of
\* the whole WAL on top of it) succeeds and gives the table of the moment
\* of the kill.
KilledBeforeUnlink == pc = "unlink" /\ pc' = "down"
C27_ReplayOnSnapshotIdempotent ==
    [][KilledBeforeUnlink =>
         /\ LoadedCore'.ret = 0
         /\ LoadedCore'.table = table
      ]_vars

\* C28: a PUT, GET or DEL whose key is a zero-length byte string is
\* rejected: the table, the WAL and the counters stay as they are and the
\* reply is no success reply (no OP_RESULT with code 0, no GET_RESULT).
ZeroKeyServed ==
    /\ pc = "conns" /\ pc' = "send"
    /\ req'.type \in {MSG_PUT, MSG_GET, MSG_DEL}
    /\ req'.payload.items[1] = Bytes(<<>>)
C29_CodecRoundTrip ==
    (cbor.stage = "decoded" /\ ~cbor.raw) =>
        /\ cbor.dec.ret = 0
        /\ (cbor.type \in {MSG_PUT, MSG_DEL, MSG_GET} /\ cbor.key.b # <<>>) =>
              cbor.dec.key = cbor.key.b
        /\ (cbor.type = MSG_PUT /\ cbor.key.b # <<>>) =>
              cbor.dec.val = cbor.val.b
        /\ cbor.type = MSG_GET_RESULT => cbor.dec.val = cbor.val.b

\* C30: the PUT decoder fails for every payload that is not an array of
\* two byte strings; the DEL and GET decoders fail for every payload that
\* is not an array of one byte string.
IsBytesArray(p, k) ==
    /\ p.wf = "array" /\ Len(p.items) = k
    /\ \A j \in 1..k : p.items[j].t = "bytes"
C30_DecodersRejectWrongShape ==
    (cbor.stage = "decoded" /\ cbor.raw) =>
        /\ (cbor.type = MSG_PUT /\ ~IsBytesArray(cbor.frame.payload, 2)) =>
              cbor.dec.ret = -1
        /\ (cbor.type \in {MSG_DEL, MSG_GET}
               /\ ~IsBytesArray(cbor.frame.payload, 1)) =>
              cbor.dec.ret = -1

\* C31: the SEARCH decoder accepts the count n as a CBOR unsigned integer
\* of any width up to 64 bits and fails whenever the value does not fit the
\* signed int it is stored in; the n it returns is the encoded value, never
\* a truncated or a negative one.
FitsInt(bytes) ==
    /\ \A j \in 1..(Len(bytes) - 4) : bytes[j] = 0
    /\ Len(bytes) >= 4 => bytes[Len(bytes) - 3] < 128
C31_SearchCountInRange ==
    (/\ cbor.stage = "decoded" /\ cbor.type = MSG_SEARCH
     /\ cbor.frame.payload.items[2].t # "bytes") =>
        LET b == cbor.frame.payload.items[2].b
        IN  /\ FitsInt(b) => (cbor.dec.ret = 0 /\ cbor.n = CastToInt(b))
            /\ ~FitsInt(b) => cbor.dec.ret = -1
            /\ cbor.dec.ret = 0 => cbor.n >= 0

\* C32: a GET request is read-only: whether the key is found or not,
\* handling it, and sending its reply, leaves the table, the WAL (the file
\* and what is buffered for it), the snapshot and both operation counters
\* unchanged.
GetLeaves ==
    /\ table' = table /\ op_add' = op_add /\ op_del' = op_del
    /\ walDisk' = walDisk /\ walBuf' = walBuf /\ walTorn' = walTorn
    /\ walExists' = walExists /\ walH' = walH /\ snapshot' = snapshot
C32_GetIsReadOnly ==
    [][/\ (ServesFrame /\ req'.type = MSG_GET) => GetLeaves
       /\ (pc = "send" /\ req.type = MSG_GET /\ pc' = "conns") => GetLeaves
      ]_vars

\* a GET that found its key is about to be answered while a mutation of the
\* same round is counted and buffered for the WAL
C32_Witness ==
    /\ pc = "send" /\ req.type = MSG_GET /\ buff.type = MSG_GET_RESULT
    /\ walBuf # <<>> /\ op_add + op_del > 0

\* C33: on live traffic op_add grows by exactly 1 for each PUT the engine
\* accepts and op_del by exactly 1 for each DEL the engine accepts; a PUT
\* or DEL the engine rejects, a GET and a protocol error leave both
\* counters as they were.
C33_CountersCountAcceptedMutations ==
    [][ServesFrame =>
          IF Applied(steps') /\ req'.type = MSG_PUT
          THEN op_add' = op_add + 1 /\ op_del' = op_del
          ELSE IF Applied(steps') /\ req'.type = MSG_DEL
          THEN op_del' = op_del + 1 /\ op_add' = op_add
          ELSE op_add' = op_add /\ op_del' = op_del
      ]_vars

\* a DEL of a missing key was answered while one accepted PUT is counted
C33_Witness ==
    /\ pc = "send" /\ req.type = MSG_DEL /\ EngineRejected(steps)
    /\ op_add = 1 /\ op_del = 0

\* C34: WAL replay at startup does not write to the WAL: after replay of a
\* well-formed WAL the file holds the frames it held before, so a second
\* restart with no traffic in between replays the same entries and reaches
\* the same table.
C34_ReplayLeavesWal ==
    [][Restarts =>
          /\ walDisk' = walDisk /\ walTorn' = walTorn /\ snapshot' = snapshot
          /\ walBuf' = <<>>
          /\ LoadedCore'.ret = 0
          /\ LoadedCore'.table = table'
      ]_vars

\* the server came up from a WAL that holds entries and has served nothing
C34_Witness ==
    /\ pc = "looptest" /\ lastStop = "up" /\ open = {} /\ backlog = 0
    /\ walBuf = <<>> /\ walDisk # <<>> /\ table # EmptyTable
    /\ op_add + op_del = Len(walDisk)

\* C35: if the WAL ends in a truncated frame (a crash in the middle of an
\* append) replay reports failure and the process ends without ever
\* listening: from a stopped process with a torn WAL the only step is the
\* failed start, which leaves the process down, no descriptor open or
\* watched, the table not served and the files as they were.
TornWal == walExists /\ walTorn
C35_TornWalRefusesStart ==
    [][(pc = "down" /\ TornWal) =>
          /\ lastStop' = "startfail"
          /\ pc' = "down" /\ ~ListenerOpen'
          /\ fdset' = {} /\ open' = {} /\ conn' = NoConn
          /\ table' = EmptyTable
          /\ walDisk' = walDisk /\ walTorn' = walTorn /\ snapshot' = snapshot
      ]_vars

\* a start was refused on a WAL that holds whole frames before the torn one
C35_Witness ==
    /\ pc = "down" /\ lastStop = "startfail" /\ TornWal /\ walDisk # <<>>

\* C36: the server loop returns 0 only when it stopped because of a
\* shutdown signal; when a fatal select or accept error ended it, it
\* returns -1. (A loop left with running still set was not stopped by a
\* signal.)
C36_ReturnZeroOnlyOnSignal ==
    [][(pc = "closing" /\ ret = <<>> /\ ret' # <<>>) =>
          /\ ret' = <<0>> => ~running
          /\ running => ret' = <<-1>>
      ]_vars

\* C37: also after a snapshot flush has unlinked the WAL, the request frame
\* of every successful PUT or DEL is appended to a file reachable at the
\* WAL path: when the reply is about to be sent, the FILE* written through
\* is on the file at the path and the request is the last frame of it.
C37_MutationLoggedAtWalPath ==
    (pc = "send" /\ IsMutation(req) /\ Applied(steps)) =>
        /\ walH = "linked" /\ walExists
        /\ WalStream # <<>> /\ WalStream[Len(WalStream)] = req

\* C38: a request sent on one connection is eventually answered even when
\* another client has sent only part of a frame and then stalls: while the
\* server waits for the rest of a frame on one connection, every other
\* connection with bytes to read is eventually read: its request is taken
\* (or it is closed), or it is the one now waited for, or the server was
\* told to stop.
C38_StalledClientDoesNotBlock ==
    \A d \in {server + s : s \in Slots} :
        (pc = "recvwait" /\ d \in rdy /\ d # conn[NextSlot])
            ~> \/ d \notin rdy
               \/ pc = "recvwait" /\ d = conn[NextSlot]
               \/ ~running

\* C39: at every iteration boundary of the connection loop the watched set
\* is the listening socket plus exactly the descriptors stored in occupied
\* slots: a closed connection is neither watched nor stored, no descriptor
\* is stored in two slots, and no invalid descriptor (-1, as a failed
\* accept returns it) is watched.
IterationBoundary == pc \in {"looptest", "select"}
C39_WatchedSetIsListenerPlusSlots ==
    IterationBoundary =>
        /\ fdset = {server} \cup ({conn[s] : s \in Slots} \ {-1})
        /\ -1 \notin fdset
        /\ \A s, u \in Slots : (conn[s] # -1 /\ conn[s] = conn[u]) => s = u
        /\ \A s \in Slots : conn[s] # -1 => conn[s] \in open

\* the frames in the file at the WAL path (none when there is no such file)
WalFileFrames == IF walExists THEN Len(walDisk) ELSE 0

\* C40: while no WAL write has failed, op_add + op_del equals the number of
\* frames in the file at the WAL path in every state between requests:
\* after startup replay, after each mutation, after a snapshot flush and
\* after a restart that follows a crash between export and unlink.
C40_CountersEqualWalFrames ==
    (IterationBoundary /\ ~walWriteFailed) => op_add + op_del = WalFileFrames

====
